---- MODULE Spec2Model ----
(***************************************************************************)
(* Action tracker: reconciliation of extracted candidate actions against   *)
(* the persisted actions of a client (matcher.py), the action store and    *)
(* the append-only history (db.py, history_logger.py), and the close and   *)
(* merge operations of the admin console (admin.py) and of the HTTP        *)
(* surface (main.py).                                                      *)
(*                                                                         *)
(* An action's id is its position in `actions` (AUTOINCREMENT from 1), and *)
(* created_at order is id order.  conversation_id, the timestamps          *)
(* (created_at, updated_at, closed_at, merged_at) and the source text      *)
(* excerpt are written but never read by an operation modelled here, and   *)
(* are left out of the rows and of the history entries.                    *)
(***************************************************************************)
EXTENDS Integers, Sequences, FiniteSets, TLC

VARIABLES actions, history, pc, client, snapshot, extracted_actions, handled,
          stats, last

vars ==
    <<actions, history, pc, client, snapshot, extracted_actions, handled, stats, last>>

-----------------------------------------------------------------------------
(* Bounds of the model. *)

MaxActions == 2

MaxHistory == 4

MaxBatch == 2

-----------------------------------------------------------------------------
(* models.py: enumerations *)

OPEN == "open"

CLOSED == "closed"

TENTATIVE == "tentative"

ActionStatus == {OPEN, CLOSED, TENTATIVE}

OperationType == {"create", "update", "close", "merge"}

NoHint == "None"

StatusHints == {NoHint, "closed", "modify"}

NoDeliverable == "None"

Clients == {"c1", "c2"}

Procs == {1, 2}

-----------------------------------------------------------------------------
(* Python values held in metadata maps.  A map is a function from its keys *)
(* to tagged values, so that isinstance tests can be made on the value.    *)

Str(s) == [kind |-> "str", val |-> s]

List(q) == [kind |-> "list", val |-> q]

EmptyDict == [k \in {} |-> 0]

Range(q) == {q[i] : i \in DOMAIN q}

\* dict.get(key, default)
Get(d, key, default) == IF key \in DOMAIN d THEN d[key] ELSE default

\* bool(d) of a dict: non-empty
Truthy(d) == DOMAIN d # {}

PanMeta(p) == [k \in {"pan_number"} |-> Str(p)]

UrlMeta(q) == [k \in {"urls"} |-> List(q)]

-----------------------------------------------------------------------------
(* nlp.py: the task text templates and the suffix chosen from the raw text *)

TaskTemplate(task_type) ==
    CASE task_type = "pan_card" -> "Provide PAN card document"
      [] task_type = "aadhaar" -> "Provide Aadhaar card document"
      [] task_type = "bank_statement" -> "Provide bank statement"
      [] task_type = "income_proof" -> "Provide income proof document"
      [] task_type = "address_proof" -> "Provide address proof document"
      [] task_type = "photo" -> "Provide photograph"
      [] task_type = "signature" -> "Provide signature"
      [] OTHER -> "Provide requested document"

\* suffix \in {"photo", "pdf", "number", "none"}: the first of the substrings
\* 'photo', 'pdf', 'number' the lower-cased message contains
_generate_task_text(suffix, task_type) ==
    CASE suffix = "photo" -> TaskTemplate(task_type) \o " (photo required)"
      [] suffix = "pdf" -> TaskTemplate(task_type) \o " (PDF required)"
      [] suffix = "number" -> TaskTemplate(task_type) \o " (number required)"
      [] OTHER -> TaskTemplate(task_type)

\* Faulty variant (sensitivity of C25): the sender made the owner
OwnerOfSender(sender) == sender

\* owner = 'client' if sender == 'rm' else 'rm'
OwnerOf(sender) == IF sender = "rm" THEN "client" ELSE "rm"

\* the ExtractedAction _create_action builds from what it found in a message
ExtractedAction(task_type, sender, status_hint, metadata, deliverable_type, suffix) ==
    [task_text |-> _generate_task_text(suffix, task_type),
     task_type |-> task_type,
     owner |-> OwnerOf(sender),
     status_hint |-> status_hint,
     metadata |-> metadata,
     deliverable_type |-> deliverable_type,
     confidence |-> [num |-> 8, den |-> 10]]

-----------------------------------------------------------------------------
(* Task texts as character sequences, for difflib.SequenceMatcher. *)

TaskTypes ==
    {"pan_card", "aadhaar", "bank_statement", "income_proof", "address_proof",
     "photo", "signature", "other"}

Suffixes == {"photo", "pdf", "number", "none"}

TemplateChars(task_type) ==
    CASE task_type = "pan_card" ->
            <<"P", "r", "o", "v", "i", "d", "e", " ", "P", "A", "N", " ", "c", "a", "r", "d", " ", "d", "o", "c", "u", "m", "e", "n", "t">>
      [] task_type = "aadhaar" ->
            <<"P", "r", "o", "v", "i", "d", "e", " ", "A", "a", "d", "h", "a", "a", "r", " ", "c", "a", "r", "d", " ", "d", "o", "c", "u", "m", "e", "n", "t">>
      [] task_type = "bank_statement" ->
            <<"P", "r", "o", "v", "i", "d", "e", " ", "b", "a", "n", "k", " ", "s", "t", "a", "t", "e", "m", "e", "n", "t">>
      [] task_type = "income_proof" ->
            <<"P", "r", "o", "v", "i", "d", "e", " ", "i", "n", "c", "o", "m", "e", " ", "p", "r", "o", "o", "f", " ", "d", "o", "c", "u", "m", "e", "n", "t">>
      [] task_type = "address_proof" ->
            <<"P", "r", "o", "v", "i", "d", "e", " ", "a", "d", "d", "r", "e", "s", "s", " ", "p", "r", "o", "o", "f", " ", "d", "o", "c", "u", "m", "e", "n", "t">>
      [] task_type = "photo" ->
            <<"P", "r", "o", "v", "i", "d", "e", " ", "p", "h", "o", "t", "o", "g", "r", "a", "p", "h">>
      [] task_type = "signature" ->
            <<"P", "r", "o", "v", "i", "d", "e", " ", "s", "i", "g", "n", "a", "t", "u", "r", "e">>
      [] OTHER ->
            <<"P", "r", "o", "v", "i", "d", "e", " ", "r", "e", "q", "u", "e", "s", "t", "e", "d", " ", "d", "o", "c", "u", "m", "e", "n", "t">>

SuffixChars(suffix) ==
    CASE suffix = "photo" ->
            <<" ", "(", "p", "h", "o", "t", "o", " ", "r", "e", "q", "u", "i", "r", "e", "d", ")">>
      [] suffix = "pdf" ->
            <<" ", "(", "P", "D", "F", " ", "r", "e", "q", "u", "i", "r", "e", "d", ")">>
      [] suffix = "number" ->
            <<" ", "(", "n", "u", "m", "b", "e", "r", " ", "r", "e", "q", "u", "i", "r", "e", "d", ")">>
      [] OTHER -> <<>>

\* a task text that shares no character with the texts of the templates (an
\* Action row built outside the extractor, as the tests build theirs)
ForeignText == "XYZ"

\* the characters of a task text _generate_task_text can produce, or of the
\* foreign text
Chars(text) ==
    IF text = ForeignText THEN <<"X", "Y", "Z">>
    ELSE LET ts == CHOOSE p \in TaskTypes \X Suffixes :
                      _generate_task_text(p[2], p[1]) = text
         IN TemplateChars(ts[1]) \o SuffixChars(ts[2])

\* str.lower() on one character
LowerChar(ch) ==
    CASE ch = "A" -> "a"
      [] ch = "B" -> "b"
      [] ch = "C" -> "c"
      [] ch = "D" -> "d"
      [] ch = "E" -> "e"
      [] ch = "F" -> "f"
      [] ch = "G" -> "g"
      [] ch = "H" -> "h"
      [] ch = "I" -> "i"
      [] ch = "J" -> "j"
      [] ch = "K" -> "k"
      [] ch = "L" -> "l"
      [] ch = "M" -> "m"
      [] ch = "N" -> "n"
      [] ch = "O" -> "o"
      [] ch = "P" -> "p"
      [] ch = "Q" -> "q"
      [] ch = "R" -> "r"
      [] ch = "S" -> "s"
      [] ch = "T" -> "t"
      [] ch = "U" -> "u"
      [] ch = "V" -> "v"
      [] ch = "W" -> "w"
      [] ch = "X" -> "x"
      [] ch = "Y" -> "y"
      [] ch = "Z" -> "z"
      [] OTHER -> ch

Lower(q) == [i \in DOMAIN q |-> LowerChar(q[i])]

-----------------------------------------------------------------------------
(* difflib.SequenceMatcher(None, a, b).ratio(), as matcher.py uses it: no   *)
(* junk, and no autojunk below 200 characters.  Positions are 1-based and  *)
(* ranges inclusive.                                                       *)

RECURSIVE MatchLen(_, _, _, _, _, _)
MatchLen(a, b, i, j, ahi, bhi) ==
    IF i <= ahi /\ j <= bhi /\ a[i] = b[j]
    THEN 1 + MatchLen(a, b, i + 1, j + 1, ahi, bhi)
    ELSE 0

SetMax(S) == CHOOSE x \in S : \A y \in S : y <= x

SetMin(S) == CHOOSE x \in S : \A y \in S : x <= y

\* the longest matching block in a[alo..ahi], b[blo..bhi]; of the longest, the
\* one starting earliest in a, and of those the one starting earliest in b
find_longest_match(a, b, alo, ahi, blo, bhi) ==
    LET len == [c \in (alo..ahi) \X (blo..bhi) |-> MatchLen(a, b, c[1], c[2], ahi, bhi)]
        size == IF DOMAIN len = {} THEN 0 ELSE SetMax({len[c] : c \in DOMAIN len})
    IN IF size = 0
       THEN [i |-> alo, j |-> blo, size |-> 0]
       ELSE LET besti == SetMin({c[1] : c \in {d \in DOMAIN len : len[d] = size}})
                bestj == SetMin({c[2] : c \in {d \in DOMAIN len : len[d] = size /\ d[1] = besti}})
            IN [i |-> besti, j |-> bestj, size |-> size]

\* the total size of get_matching_blocks(): the longest block, then the same
\* to its left and to its right
RECURSIVE MatchingTotal(_, _, _, _, _, _)
MatchingTotal(a, b, alo, ahi, blo, bhi) ==
    LET m == find_longest_match(a, b, alo, ahi, blo, bhi)
    IN IF m.size = 0
       THEN 0
       ELSE m.size
            + (IF alo < m.i /\ blo < m.j
               THEN MatchingTotal(a, b, alo, m.i - 1, blo, m.j - 1)
               ELSE 0)
            + (IF m.i + m.size <= ahi /\ m.j + m.size <= bhi
               THEN MatchingTotal(a, b, m.i + m.size, ahi, m.j + m.size, bhi)
               ELSE 0)

\* ratio() = 2.0 * matches / (len(a) + len(b)), 1.0 when both are empty;
\* kept as the fraction num / den
SequenceMatcherRatio(a, b) ==
    IF Len(a) + Len(b) = 0
    THEN [num |-> 1, den |-> 1]
    ELSE [num |-> 2 * MatchingTotal(a, b, 1, Len(a), 1, Len(b)),
          den |-> Len(a) + Len(b)]

-----------------------------------------------------------------------------
(* matcher.py: ActionMatcher.  Scores are floats in the source; here they  *)
(* are exact fractions [num, den] with den > 0.                            *)

Frac(n, d) == [num |-> n, den |-> d]

FracGeq(x, y) == x.num * y.den >= y.num * x.den

FracGt(x, y) == x.num * y.den > y.num * x.den

FracMin(x, y) == IF FracGt(x, y) THEN y ELSE x

high_confidence_threshold == Frac(85, 100)

tentative_threshold == Frac(6, 10)

RECURSIVE Join(_)
Join(q) == IF Len(q) = 1 THEN q[1] ELSE q[1] \o "_" \o Join(Tail(q))

\* Faulty variant (sensitivity of C19): the status hint taken into the key
_compute_task_key_with_hint(extracted_action) ==
    LET base_key == extracted_action.task_type
        entities ==
            (IF "pan_number" \in DOMAIN extracted_action.metadata
             THEN <<"pan_" \o extracted_action.metadata["pan_number"].val>>
             ELSE <<>>)
            \o (IF extracted_action.deliverable_type # NoDeliverable
                THEN <<extracted_action.deliverable_type>>
                ELSE <<>>)
            \o (IF extracted_action.status_hint # NoHint
                THEN <<extracted_action.status_hint>>
                ELSE <<>>)
            \o <<extracted_action.owner>>
    IN base_key \o "_" \o Join(entities)

\* Faulty variant (sensitivity of C20): the owner left out of the key
_compute_task_key_no_owner(extracted_action) ==
    LET base_key == extracted_action.task_type
        entities ==
            (IF "pan_number" \in DOMAIN extracted_action.metadata
             THEN <<"pan_" \o extracted_action.metadata["pan_number"].val>>
             ELSE <<>>)
            \o (IF extracted_action.deliverable_type # NoDeliverable
                THEN <<extracted_action.deliverable_type>>
                ELSE <<>>)
    IN IF entities # <<>> THEN base_key \o "_" \o Join(entities) ELSE base_key

_compute_task_key(extracted_action) ==
    LET base_key == extracted_action.task_type
        entities ==
            (IF "pan_number" \in DOMAIN extracted_action.metadata
             THEN <<"pan_" \o extracted_action.metadata["pan_number"].val>>
             ELSE <<>>)
            \o (IF extracted_action.deliverable_type # NoDeliverable
                THEN <<extracted_action.deliverable_type>>
                ELSE <<>>)
            \o <<extracted_action.owner>>
    IN IF entities # <<>> THEN base_key \o "_" \o Join(entities) ELSE base_key

None == [kind |-> "none", val |-> ""]

\* truth value of a metadata value: None and the empty string are false
ValueTruthy(v) == v.kind # "none" /\ ~(v.kind = "str" /\ v.val = "")

\* Faulty variant (sensitivity of C17): metadata on one side only counted as a
\* match (the two emptiness tests joined by `or` in the first return)
_compute_entity_match_score_one_sided(new_metadata, existing_metadata) ==
    IF ~Truthy(new_metadata) \/ ~Truthy(existing_metadata) THEN Frac(1, 1)
    ELSE Frac(0, 1)

\* Faulty variant (sensitivity of C31): the first return left out, so that two
\* empty dicts score 0.0
_compute_entity_match_score_empty_zero(new_metadata, existing_metadata) ==
    Frac(0, 1)

\* Faulty variant (sensitivity of C30): the PAN number counted as soon as one
\* side has one
_compute_entity_match_score_pan_either(new_metadata, existing_metadata) ==
    IF ~Truthy(new_metadata) /\ ~Truthy(existing_metadata) THEN Frac(1, 1)
    ELSE IF ~Truthy(new_metadata) \/ ~Truthy(existing_metadata) THEN Frac(0, 1)
    ELSE
      LET pan == "pan_number" \in DOMAIN new_metadata
                    \/ "pan_number" \in DOMAIN existing_metadata
          new_urls == Range(Get(new_metadata, "urls", List(<<>>)).val)
          existing_urls == Range(Get(existing_metadata, "urls", List(<<>>)).val)
          urls == new_urls # {} \/ existing_urls # {}
          new_deliverable == Get(new_metadata, "deliverable_type", None)
          existing_deliverable == Get(existing_metadata, "deliverable_type", None)
          deliverable == ValueTruthy(new_deliverable) \/ ValueTruthy(existing_deliverable)
          total_entities ==
              (IF pan THEN 1 ELSE 0) + (IF urls THEN 1 ELSE 0)
              + (IF deliverable THEN 1 ELSE 0)
          matches ==
              (IF pan /\ Get(new_metadata, "pan_number", None)
                            = Get(existing_metadata, "pan_number", None)
               THEN 1 ELSE 0)
              + (IF urls /\ new_urls \cap existing_urls # {} THEN 1 ELSE 0)
              + (IF deliverable /\ new_deliverable = existing_deliverable THEN 1 ELSE 0)
      IN IF total_entities > 0 THEN Frac(matches, total_entities) ELSE Frac(0, 1)

_compute_entity_match_score(new_metadata, existing_metadata) ==
    IF ~Truthy(new_metadata) /\ ~Truthy(existing_metadata) THEN Frac(1, 1)
    ELSE IF ~Truthy(new_metadata) \/ ~Truthy(existing_metadata) THEN Frac(0, 1)
    ELSE
      LET pan == "pan_number" \in DOMAIN new_metadata
                    /\ "pan_number" \in DOMAIN existing_metadata
          new_urls == Range(Get(new_metadata, "urls", List(<<>>)).val)
          existing_urls == Range(Get(existing_metadata, "urls", List(<<>>)).val)
          urls == new_urls # {} \/ existing_urls # {}
          new_deliverable == Get(new_metadata, "deliverable_type", None)
          existing_deliverable == Get(existing_metadata, "deliverable_type", None)
          deliverable == ValueTruthy(new_deliverable) \/ ValueTruthy(existing_deliverable)
          total_entities ==
              (IF pan THEN 1 ELSE 0) + (IF urls THEN 1 ELSE 0)
              + (IF deliverable THEN 1 ELSE 0)
          matches ==
              (IF pan /\ new_metadata["pan_number"] = existing_metadata["pan_number"]
               THEN 1 ELSE 0)
              + (IF urls /\ new_urls \cap existing_urls # {} THEN 1 ELSE 0)
              + (IF deliverable /\ new_deliverable = existing_deliverable THEN 1 ELSE 0)
      IN IF total_entities > 0 THEN Frac(matches, total_entities) ELSE Frac(0, 1)

\* SequenceMatcher(None, a.lower(), b.lower()).ratio() of two task texts
TextSimilarity(text_a, text_b) ==
    SequenceMatcherRatio(Lower(Chars(text_a)), Lower(Chars(text_b)))

\* Faulty variant (sensitivity of C18): the text similarity weighted 0.3, the
\* weights summing to 1.1 under the cap
FuzzyScoreHeavyText(type_equal, entity_score, text_similarity, owner_equal) ==
    LET e == entity_score
        r == text_similarity
        score ==
            Frac((IF type_equal THEN 4 * e.den * r.den ELSE 0)
                   + 3 * e.num * r.den
                   + 3 * r.num * e.den
                   + (IF owner_equal THEN e.den * r.den ELSE 0),
                 10 * e.den * r.den)
    IN FracMin(score, Frac(1, 1))

\* 0.4 [task_type equal] + 0.3 entity_score + 0.2 text_similarity
\* + 0.1 [owner equal], capped at 1.0
FuzzyScore(type_equal, entity_score, text_similarity, owner_equal) ==
    LET e == entity_score
        r == text_similarity
        score ==
            Frac((IF type_equal THEN 4 * e.den * r.den ELSE 0)
                   + 3 * e.num * r.den
                   + 2 * r.num * e.den
                   + (IF owner_equal THEN e.den * r.den ELSE 0),
                 10 * e.den * r.den)
    IN FracMin(score, Frac(1, 1))

-----------------------------------------------------------------------------
(* The candidates reconciled in the model: what RuleBasedExtractor yields  *)
(* for these messages.                                                     *)

PAN1 == "ABCDE1234F"

URL1 == "https://a.example/pan"

URL2 == "https://b.example/pan"

\* "Please send your PAN card document", from rm
CandRequestPdf ==
    ExtractedAction("pan_card", "rm", NoHint, EmptyDict, "pdf", "none")

\* "I have submitted my PAN card document", from client
CandSubmittedPdf ==
    ExtractedAction("pan_card", "client", "closed", EmptyDict, "pdf", "none")

\* "My PAN number is ABCDE1234F", from client
CandPanNumberIs ==
    ExtractedAction("pan_card", "client", "closed", PanMeta(PAN1), "number", "number")

\* "Please send PAN card https://a.example/pan", from rm
CandRequestUrl ==
    ExtractedAction("pan_card", "rm", NoHint, UrlMeta(<<URL1>>), "url", "none")

\* "Please update PAN card https://b.example/pan", from rm
CandUpdateUrl ==
    ExtractedAction("pan_card", "rm", "modify", UrlMeta(<<URL2>>), "url", "none")

\* "I have received PAN card https://b.example/pan", from rm
CandReceivedUrl ==
    ExtractedAction("pan_card", "rm", "closed", UrlMeta(<<URL2>>), "url", "none")

Candidates ==
    {CandRequestPdf, CandSubmittedPdf, CandPanNumberIs, CandRequestUrl,
     CandUpdateUrl, CandReceivedUrl}

\* the candidates the conversations of a client give rise to
CandidatesOf(client_id) ==
    IF client_id = "c1" THEN Candidates ELSE {CandRequestUrl}

\* the lists of n candidates a call for the client can be given
Batches(client_id, n) == [1..n -> CandidatesOf(client_id)]

\* "Please send PAN card photo", from rm
CandRequestPhoto ==
    ExtractedAction("pan_card", "rm", NoHint, EmptyDict, "photo", "photo")

\* "I have submitted my PAN card photo", from client
CandSubmittedPhoto ==
    ExtractedAction("pan_card", "client", "closed", EmptyDict, "photo", "photo")

\* "Please send your PAN card", from rm
CandRequestPan ==
    ExtractedAction("pan_card", "rm", NoHint, EmptyDict, NoDeliverable, "none")

\* "Please send your Aadhaar card document", from rm
CandRequestAadhaar ==
    ExtractedAction("aadhaar", "rm", NoHint, EmptyDict, "pdf", "none")

\* candidates without metadata that differ in deliverable type, owner or
\* task type
PlainCandidates ==
    {CandRequestPdf, CandSubmittedPdf, CandRequestPhoto, CandSubmittedPhoto,
     CandRequestPan, CandRequestAadhaar}

\* text_similarity of every pair of task texts the candidates carry
ModelTexts ==
    {c.task_text : c \in Candidates \cup PlainCandidates} \cup {ForeignText}

SimilarityTable ==
    {[text_a |-> p[1], text_b |-> p[2], ratio |-> TextSimilarity(p[1], p[2])] :
        p \in ModelTexts \X ModelTexts}

\* the tabulated text_similarity of two task texts
text_similarity(text_a, text_b) ==
    (CHOOSE t \in SimilarityTable : t.text_a = text_a /\ t.text_b = text_b).ratio

_compute_fuzzy_score(extracted_action, existing_action) ==
    FuzzyScore(extracted_action.task_type = existing_action.task_type,
               _compute_entity_match_score(extracted_action.metadata,
                                           existing_action.metadata),
               text_similarity(extracted_action.task_text, existing_action.task_text),
               extracted_action.owner = existing_action.owner)

NoId == 0

\* MatchResult()
NoMatch == [action_id |-> NoId, confidence |-> Frac(0, 1), match_type |-> "none"]

\* Faulty variant of the loop (sensitivity of C4): an exact hit is recorded
\* without returning, so a later exact hit replaces an earlier one
RECURSIVE ScanFromNoReturn(_, _, _, _, _)
ScanFromNoReturn(extracted_action, existing_actions, task_key, i, best_match) ==
    IF i > Len(existing_actions) THEN best_match
    ELSE LET existing_action == existing_actions[i]
             fuzzy_score == _compute_fuzzy_score(extracted_action, existing_action)
         IN ScanFromNoReturn(extracted_action, existing_actions, task_key, i + 1,
                IF existing_action.task_key = task_key
                THEN [action_id |-> existing_action.id,
                      confidence |-> Frac(1, 1),
                      match_type |-> "exact"]
                ELSE IF FracGt(fuzzy_score, best_match.confidence)
                THEN [action_id |-> existing_action.id,
                      confidence |-> fuzzy_score,
                      match_type |-> "fuzzy"]
                ELSE best_match)

\* Faulty variant of the loop (sensitivity of C29): the scores compared with
\* >=, so that a later action replaces an earlier one of equal score and an
\* action of score 0 is a match
RECURSIVE ScanFromLastWins(_, _, _, _, _)
ScanFromLastWins(extracted_action, existing_actions, task_key, i, best_match) ==
    IF i > Len(existing_actions) THEN best_match
    ELSE LET existing_action == existing_actions[i]
             fuzzy_score == _compute_fuzzy_score(extracted_action, existing_action)
         IN IF existing_action.task_key = task_key
            THEN [action_id |-> existing_action.id,
                  confidence |-> Frac(1, 1),
                  match_type |-> "exact"]
            ELSE ScanFromLastWins(extracted_action, existing_actions, task_key, i + 1,
                          IF FracGeq(fuzzy_score, best_match.confidence)
                          THEN [action_id |-> existing_action.id,
                                confidence |-> fuzzy_score,
                                match_type |-> "fuzzy"]
                          ELSE best_match)

\* Faulty variant of the loop (sensitivity of C32): the comparison of task
\* keys left out, every action being scored
RECURSIVE ScanFromNoExact(_, _, _, _, _)
ScanFromNoExact(extracted_action, existing_actions, task_key, i, best_match) ==
    IF i > Len(existing_actions) THEN best_match
    ELSE LET existing_action == existing_actions[i]
             fuzzy_score == _compute_fuzzy_score(extracted_action, existing_action)
         IN ScanFromNoExact(extracted_action, existing_actions, task_key, i + 1,
                IF FracGt(fuzzy_score, best_match.confidence)
                THEN [action_id |-> existing_action.id,
                      confidence |-> fuzzy_score,
                      match_type |-> "fuzzy"]
                ELSE best_match)

\* the loop of _find_best_match from position i on, best_match so far
RECURSIVE ScanFrom(_, _, _, _, _)
ScanFrom(extracted_action, existing_actions, task_key, i, best_match) ==
    IF i > Len(existing_actions) THEN best_match
    ELSE LET existing_action == existing_actions[i]
             fuzzy_score == _compute_fuzzy_score(extracted_action, existing_action)
         IN IF existing_action.task_key = task_key
            THEN [action_id |-> existing_action.id,
                  confidence |-> Frac(1, 1),
                  match_type |-> "exact"]
            ELSE ScanFrom(extracted_action, existing_actions, task_key, i + 1,
                          IF FracGt(fuzzy_score, best_match.confidence)
                          THEN [action_id |-> existing_action.id,
                                confidence |-> fuzzy_score,
                                match_type |-> "fuzzy"]
                          ELSE best_match)

_find_best_match(extracted_action, existing_actions, task_key) ==
    ScanFrom(extracted_action, existing_actions, task_key, 1, NoMatch)

\* Faulty variant of the branch selection (sensitivity of C3): the thresholds
\* compared with > instead of >=
DecisionStrict(match_result) ==
    IF match_result.match_type = "exact" THEN "update"
    ELSE IF match_result.match_type = "fuzzy"
            /\ FracGt(match_result.confidence, high_confidence_threshold)
    THEN "update"
    ELSE IF match_result.match_type = "fuzzy"
            /\ FracGt(match_result.confidence, tentative_threshold)
    THEN "tentative"
    ELSE "create"

\* the branch process_extracted_actions takes on a match result
Decision(match_result) ==
    IF match_result.match_type = "exact" THEN "update"
    ELSE IF match_result.match_type = "fuzzy"
            /\ FracGeq(match_result.confidence, high_confidence_threshold)
    THEN "update"
    ELSE IF match_result.match_type = "fuzzy"
            /\ FracGeq(match_result.confidence, tentative_threshold)
    THEN "tentative"
    ELSE "create"

-----------------------------------------------------------------------------
(* matcher.py: _merge_metadata.  list(set(...)) fixes no order, so a merge *)
(* has one outcome per ordering of the united list.                        *)

\* the orderings of a finite set, as sequences without repetition
Orderings(S) ==
    {q \in [1..Cardinality(S) -> S] : \A i, j \in DOMAIN q : q[i] = q[j] => i = j}

\* len(str(v)): a str is its own text; a list prints as ['x', 'y']
RECURSIVE SumLen(_)
SumLen(q) == IF q = <<>> THEN 0 ELSE Len(Head(q)) + 2 + SumLen(Tail(q))

\* a dict of strings prints as {'k': 'v', 'l': 'w'}
RECURSIVE ItemsLen(_, _)
ItemsLen(d, keys) ==
    IF keys = {} THEN 0
    ELSE LET k == CHOOSE x \in keys : TRUE
         IN Len(k) + 2 + 2 + Len(d[k]) + 2 + ItemsLen(d, keys \ {k})

PyStrLen(v) ==
    CASE v.kind = "str" -> Len(v.val)
      [] v.kind = "list" ->
            2 + SumLen(v.val) + (IF Len(v.val) > 1 THEN 2 * (Len(v.val) - 1) ELSE 0)
      [] v.kind = "dict" ->
            2 + ItemsLen(v.val, DOMAIN v.val)
              + (IF Cardinality(DOMAIN v.val) > 1
                 THEN 2 * (Cardinality(DOMAIN v.val) - 1) ELSE 0)
      [] OTHER -> 4

\* Faulty variant (sensitivity of C21): two lists concatenated, without the
\* pass through set()
MergeValueConcat(merged, key, value) ==
    IF key \notin DOMAIN merged THEN {value}
    ELSE IF value.kind = "list" /\ merged[key].kind = "list"
    THEN {List(merged[key].val \o value.val)}
    ELSE IF key \in {"pan_number", "deliverable_type"} THEN {value}
    ELSE {merged[key]}

\* Faulty variant (sensitivity of C22): the longer-string rule with >=, the
\* incoming value winning on equal length
MergeValueOnEqualLength(merged, key, value) ==
    IF key \notin DOMAIN merged THEN {value}
    ELSE IF value.kind = "list" /\ merged[key].kind = "list"
    THEN {List(q) : q \in Orderings(Range(merged[key].val) \cup Range(value.val))}
    ELSE IF key \in {"pan_number", "deliverable_type"} THEN {value}
    ELSE IF value.kind = "dict" /\ merged[key].kind = "dict"
    THEN {[kind |-> "dict",
           val |-> [k \in DOMAIN merged[key].val \cup DOMAIN value.val |->
                      IF k \in DOMAIN value.val THEN value.val[k]
                      ELSE merged[key].val[k]]]}
    ELSE IF PyStrLen(value) >= PyStrLen(merged[key]) THEN {value}
    ELSE {merged[key]}

\* the values merged[key] can take for one incoming (key, value)
MergeValue(merged, key, value) ==
    IF key \notin DOMAIN merged THEN {value}
    ELSE IF value.kind = "list" /\ merged[key].kind = "list"
    THEN {List(q) : q \in Orderings(Range(merged[key].val) \cup Range(value.val))}
    ELSE IF key \in {"pan_number", "deliverable_type"} THEN {value}
    ELSE IF value.kind = "dict" /\ merged[key].kind = "dict"
    THEN {[kind |-> "dict",
           val |-> [k \in DOMAIN merged[key].val \cup DOMAIN value.val |->
                      IF k \in DOMAIN value.val THEN value.val[k]
                      ELSE merged[key].val[k]]]}
    ELSE IF PyStrLen(value) > PyStrLen(merged[key]) THEN {value}
    ELSE {merged[key]}

\* every dict _merge_metadata(existing_metadata, new_metadata) can return
_merge_metadata(existing_metadata, new_metadata) ==
    {merged \in [DOMAIN existing_metadata \cup DOMAIN new_metadata ->
                   UNION {IF k \in DOMAIN new_metadata
                          THEN MergeValue(existing_metadata, k, new_metadata[k])
                          ELSE {existing_metadata[k]}
                          : k \in DOMAIN existing_metadata \cup DOMAIN new_metadata}] :
        \A k \in DOMAIN merged :
            IF k \in DOMAIN new_metadata
            THEN merged[k] \in MergeValue(existing_metadata, k, new_metadata[k])
            ELSE merged[k] = existing_metadata[k]}

-----------------------------------------------------------------------------
(* db.py: DatabaseManager, on the table `actions` (a sequence of rows, the *)
(* row at position i having id i) and the table `actions_history`.         *)

NoAction == [id |-> NoId]

\* Variant of the insert (sensitivity of C9): a uniqueness constraint on the
\* task_key of a client's open and tentative actions, the insert being
\* dropped when it is violated
create_action_unique(rows, action) ==
    IF \E i \in DOMAIN rows :
          /\ rows[i].client_id = action.client_id
          /\ rows[i].task_key = action.task_key
          /\ rows[i].status # "closed"
    THEN rows
    ELSE Append(rows, [action EXCEPT !.id = Len(rows) + 1])

\* INSERT INTO actions: the new row gets the next id, which is returned
create_action(rows, action) ==
    Append(rows, [action EXCEPT !.id = Len(rows) + 1])

get_action_by_id(rows, action_id) ==
    IF action_id \in DOMAIN rows THEN rows[action_id] ELSE NoAction

\* Faulty variant (sensitivity of C16): the select without the condition on
\* status, closed rows included
RECURSIVE AllRowsFrom(_, _, _)
AllRowsFrom(rows, client_id, i) ==
    IF i = 0 THEN <<>>
    ELSE (IF rows[i].client_id = client_id THEN <<rows[i]>> ELSE <<>>)
         \o AllRowsFrom(rows, client_id, i - 1)

\* Faulty variant (sensitivity of C37): the select without the condition on
\* client_id, the open and tentative rows of every client
RECURSIVE OpenRowsOfAllFrom(_, _, _)
OpenRowsOfAllFrom(rows, client_id, i) ==
    IF i = 0 THEN <<>>
    ELSE (IF rows[i].status \in {OPEN, TENTATIVE} THEN <<rows[i]>> ELSE <<>>)
         \o OpenRowsOfAllFrom(rows, client_id, i - 1)

\* WHERE client_id = ? AND status IN ('open', 'tentative')
\* ORDER BY created_at DESC: the rows at positions i down to 1 that qualify
RECURSIVE OpenRowsFrom(_, _, _)
OpenRowsFrom(rows, client_id, i) ==
    IF i = 0 THEN <<>>
    ELSE (IF rows[i].client_id = client_id /\ rows[i].status \in {OPEN, TENTATIVE}
          THEN <<rows[i]>>
          ELSE <<>>)
         \o OpenRowsFrom(rows, client_id, i - 1)

get_open_actions(rows, client_id) == OpenRowsFrom(rows, client_id, Len(rows))

UpdatableColumns == {"task_text", "task_key", "owner", "status", "metadata"}

\* update_action: [ok, rows]; only the recognised keys of `updates` become
\* SET clauses, and ok is rowcount > 0
update_action(rows, action_id, updates) ==
    LET set_clauses == DOMAIN updates \cap UpdatableColumns
    IN IF ~Truthy(updates) \/ set_clauses = {}
       THEN [ok |-> FALSE, rows |-> rows]
       ELSE IF action_id \notin DOMAIN rows
       THEN [ok |-> FALSE, rows |-> rows]
       ELSE [ok |-> TRUE,
             rows |-> [rows EXCEPT ![action_id] =
                         [f \in DOMAIN @ |->
                            IF f \in set_clauses THEN updates[f] ELSE @[f]]]]

\* Faulty variant (sensitivity of C15): the insert as an upsert keyed on
\* action_id, the newest entry of the action being overwritten
add_action_history_replacing(entries, entry) ==
    LET own == {i \in DOMAIN entries : entries[i].action_id = entry.action_id}
    IN IF own = {}
       THEN Append(entries, entry)
       ELSE [entries EXCEPT ![SetMax(own)] = entry]

\* INSERT INTO actions_history; created_at is datetime.now() at the insert,
\* so created_at order is the order of the entries
add_action_history(entries, entry) == Append(entries, entry)

\* WHERE action_id = ? ORDER BY created_at DESC: the entries at positions i
\* down to 1 that belong to the action
RECURSIVE EntriesFrom(_, _, _)
EntriesFrom(entries, action_id, i) ==
    IF i = 0 THEN <<>>
    ELSE (IF entries[i].action_id = action_id THEN <<entries[i]>> ELSE <<>>)
         \o EntriesFrom(entries, action_id, i - 1)

get_action_history(entries, action_id) == EntriesFrom(entries, action_id, Len(entries))

\* history_logger.log_action_operation
log_action_operation(entries, action_id, operation, payload, source_message_id, actor) ==
    add_action_history(entries,
        [action_id |-> action_id,
         operation |-> operation,
         payload |-> payload,
         source_message_id |-> source_message_id,
         actor |-> actor])

\* history_logger.log_action_closure
log_action_closure(entries, action_id, reason, source_message_id, actor) ==
    log_action_operation(entries, action_id, "close", [reason |-> reason],
                         source_message_id, actor)

\* history_logger.log_action_merge
log_action_merge(entries, source_action_id, target_action_id, merge_reason, actor) ==
    log_action_operation(entries, target_action_id, "merge",
                         [source_action_id |-> source_action_id,
                          merge_reason |-> merge_reason],
                         "None", actor)

-----------------------------------------------------------------------------
(* State.                                                                  *)
(*   actions, history : the two tables                                     *)
(*   pc, client, snapshot, extracted_actions, handled, stats : per caller  *)
(*     p, the position of its process_extracted_actions call, the call's   *)
(*     client_id, the existing_actions it read, the candidates it was      *)
(*     given, how many of them the loop has handled, and the counters      *)
(*   last : the operation step taken last and its outcome: the branch or   *)
(*     result; the action written (id); the second action involved         *)
(*     (other: the matched action of a reconcile step, the source of a     *)
(*     merge); the caller; the match type and confidence of a reconcile    *)
(*     step; the number of store writes that took effect; and the store    *)
(*     writes ("store") and history writes ("log") the step attempted, in  *)
(*     the order of the statements that make them                          *)

ZeroStats == [created |-> 0, updated |-> 0, closed |-> 0, tentative |-> 0]

Step(op, result, id, other, proc) ==
    [op |-> op, result |-> result, id |-> id, other |-> other, proc |-> proc,
     match |-> "none", confidence |-> Frac(0, 1), writes |-> 0, order |-> <<>>]

\* the record of one pass of the reconciler's loop
Reconciled(result, match_result, id, proc, writes, order) ==
    [Step("reconcile", result, id, match_result.action_id, proc)
       EXCEPT !.match = match_result.match_type,
              !.confidence = match_result.confidence,
              !.writes = writes,
              !.order = order]

\* the source_message_id of the message a candidate was extracted from
MessageId(extracted_action) ==
    CASE extracted_action = CandRequestPdf -> "m1"
      [] extracted_action = CandSubmittedPdf -> "m2"
      [] extracted_action = CandPanNumberIs -> "m3"
      [] extracted_action = CandRequestUrl -> "m4"
      [] extracted_action = CandUpdateUrl -> "m5"
      [] OTHER -> "m6"

\* the number of candidates of q that take a creating branch against snap
Creates(q, snap) ==
    Cardinality({i \in DOMAIN q :
        Decision(_find_best_match(q[i], snap, _compute_task_key(q[i]))) # "update"})

\* the candidates of caller p the loop has not handled yet
Remaining(p) ==
    SubSeq(extracted_actions[p], handled[p] + 1, Len(extracted_actions[p]))

\* rows and history entries still to be written by the calls in progress
ReservedRows == Creates(Remaining(1), snapshot[1]) + Creates(Remaining(2), snapshot[2])

ReservedEntries == Len(Remaining(1)) + Len(Remaining(2))

Idle == \A p \in Procs : pc[p] = "idle"

Init ==
    /\ actions = <<>>
    /\ history = <<>>
    /\ pc = [p \in Procs |-> "idle"]
    /\ client = [p \in Procs |-> "c1"]
    /\ snapshot = [p \in Procs |-> <<>>]
    /\ extracted_actions = [p \in Procs |-> <<>>]
    /\ handled = [p \in Procs |-> 0]
    /\ stats = [p \in Procs |-> ZeroStats]
    /\ last = Step("init", "", NoId, NoId, 0)

\* process_extracted_actions, lines 25-32: the counters and the one read of
\* the client's open and tentative actions
Begin(p, client_id, batch) ==
    /\ pc[p] = "idle"
    /\ Len(history) + ReservedEntries + Len(batch) <= MaxHistory
    /\ Len(actions) + ReservedRows
         + Creates(batch, get_open_actions(actions, client_id)) <= MaxActions
    /\ pc' = [pc EXCEPT ![p] = "loop"]
    /\ client' = [client EXCEPT ![p] = client_id]
    /\ snapshot' = [snapshot EXCEPT ![p] = get_open_actions(actions, client_id)]
    /\ extracted_actions' = [extracted_actions EXCEPT ![p] = batch]
    /\ handled' = [handled EXCEPT ![p] = 0]
    /\ stats' = [stats EXCEPT ![p] = ZeroStats]
    /\ last' = Step("begin", "", NoId, NoId, p)
    /\ UNCHANGED <<actions, history>>

\* Faulty variant (sensitivity of C8): the open actions read anew for every
\* candidate
existing_actions_fresh(p) == get_open_actions(actions, client[p])

\* the existing_actions the loop matches against: the list read at line 32
existing_actions(p) == snapshot[p]

\* Faulty variant (sensitivity of C1): a modify hint re-opens the action
UpdatesReopening(existing_action, extracted_action) ==
    IF extracted_action.status_hint = "closed"
    THEN {[status |-> CLOSED]}
    ELSE IF extracted_action.status_hint = "modify"
    THEN {[status |-> OPEN]}
    ELSE _merge_metadata(existing_action.metadata, extracted_action.metadata)

\* Faulty variant (sensitivity of C6): a closing candidate's metadata is
\* merged and stored with the status
UpdatesMergingOnClose(existing_action, extracted_action) ==
    IF extracted_action.status_hint = "closed"
    THEN {[status |-> CLOSED, metadata |-> merged] :
            merged \in _merge_metadata(existing_action.metadata,
                                       extracted_action.metadata)}
    ELSE _merge_metadata(existing_action.metadata, extracted_action.metadata)

\* _update_existing_action, lines 167-178: the updates dict the status_hint
\* selects, one per outcome of _merge_metadata
Updates(existing_action, extracted_action) ==
    IF extracted_action.status_hint = "closed"
    THEN {[status |-> CLOSED]}
    ELSE _merge_metadata(existing_action.metadata, extracted_action.metadata)

\* _update_existing_action
_update_existing_action(p, match_result, extracted_action) ==
    LET action_id == match_result.action_id
        existing_action == get_action_by_id(actions, action_id)
        operation == IF extracted_action.status_hint = "closed" THEN "close" ELSE "update"
        counter == IF extracted_action.status_hint = "closed" THEN "closed" ELSE "updated"
    IN IF existing_action = NoAction
       THEN /\ last' = Reconciled("missing", match_result, action_id, p, 0, <<>>)
            /\ UNCHANGED <<actions, history, stats>>
       ELSE \E updates \in Updates(existing_action, extracted_action) :
               LET written == IF Truthy(updates)
                              THEN update_action(actions, action_id, updates)
                              ELSE [ok |-> FALSE, rows |-> actions]
               IN /\ stats' = [stats EXCEPT ![p][counter] = @ + 1]
                  /\ actions' = written.rows
                  /\ history' = log_action_operation(history, action_id, operation,
                                   updates, MessageId(extracted_action), "system")
                  /\ last' = Reconciled(operation, match_result, action_id, p,
                                        IF written.ok THEN 1 ELSE 0,
                                        (IF Truthy(updates) THEN <<"store">> ELSE <<>>)
                                          \o <<"log">>)

\* the Action row _create_tentative_action and _create_new_action build
NewAction(extracted_action, client_id, task_key, status) ==
    [id |-> NoId,
     client_id |-> client_id,
     task_type |-> extracted_action.task_type,
     task_text |-> extracted_action.task_text,
     task_key |-> task_key,
     owner |-> extracted_action.owner,
     status |-> status,
     metadata |-> extracted_action.metadata]

_create_tentative_action(p, match_result, extracted_action, task_key) ==
    /\ actions' = create_action(actions,
                     NewAction(extracted_action, client[p], task_key, TENTATIVE))
    /\ stats' = [stats EXCEPT ![p].tentative = @ + 1]
    /\ history' = log_action_operation(history, Len(actions'), "create",
                     [status |-> "tentative", reason |-> "Low confidence match"],
                     MessageId(extracted_action), "system")
    /\ last' = Reconciled("tentative", match_result, Len(actions'), p,
                          Len(actions') - Len(actions), <<"store", "log">>)

_create_new_action(p, match_result, extracted_action, task_key) ==
    /\ actions' = create_action(actions,
                     NewAction(extracted_action, client[p], task_key, OPEN))
    /\ stats' = [stats EXCEPT ![p].created = @ + 1]
    /\ history' = log_action_operation(history, Len(actions'), "create",
                     [status |-> "open"], MessageId(extracted_action), "system")
    /\ last' = Reconciled("create", match_result, Len(actions'), p,
                          Len(actions') - Len(actions), <<"store", "log">>)

\* process_extracted_actions, lines 34-57: one pass of the loop
HandleCandidate(p) ==
    /\ pc[p] = "loop"
    /\ handled[p] < Len(extracted_actions[p])
    /\ LET extracted_action == extracted_actions[p][handled[p] + 1]
           task_key == _compute_task_key(extracted_action)
           match_result == _find_best_match(extracted_action, existing_actions(p),
                                            task_key)
       IN CASE Decision(match_result) = "update" ->
                   _update_existing_action(p, match_result, extracted_action)
            [] Decision(match_result) = "tentative" ->
                   _create_tentative_action(p, match_result, extracted_action, task_key)
            [] OTHER ->
                   _create_new_action(p, match_result, extracted_action, task_key)
    /\ handled' = [handled EXCEPT ![p] = @ + 1]
    /\ UNCHANGED <<pc, client, snapshot, extracted_actions>>

\* process_extracted_actions, line 59: return stats
Return(p) ==
    /\ pc[p] = "loop"
    /\ handled[p] = Len(extracted_actions[p])
    /\ pc' = [pc EXCEPT ![p] = "idle"]
    /\ snapshot' = [snapshot EXCEPT ![p] = <<>>]
    /\ client' = [client EXCEPT ![p] = "c1"]
    /\ extracted_actions' = [extracted_actions EXCEPT ![p] = <<>>]
    /\ handled' = [handled EXCEPT ![p] = 0]
    /\ stats' = [stats EXCEPT ![p] = ZeroStats]
    /\ last' = Step("return", "", NoId, NoId, p)
    /\ UNCHANGED <<actions, history>>

-----------------------------------------------------------------------------
(* admin.py: ActionTrackerAdmin.close_action and merge_actions; main.py:   *)
(* PUT /actions/{id}/close and POST /actions/{id}/merge, whose result is   *)
(* the HTTP status of the response.  Metadata is stored as JSON text; for  *)
(* maps of strings and lists of strings json.loads(json.dumps(m)) = m.     *)

\* Faulty variant (sensitivity of C36): the merge without the closure entry of
\* the source
MergeIntoUnlogged(op, source_id, target_id, merge_reason, actor, merged, failed) ==
    LET source_action == get_action_by_id(actions, source_id)
        target_action == get_action_by_id(actions, target_id)
    IN \E merged_metadata \in _merge_metadata(target_action.metadata,
                                              source_action.metadata) :
          LET written == update_action(actions, target_id,
                                       [metadata |-> merged_metadata])
              closed == update_action(written.rows, source_id, [status |-> CLOSED])
          IN IF written.ok
             THEN /\ actions' = closed.rows
                  /\ history' = log_action_merge(history, source_id, target_id,
                                                 merge_reason, actor)
                  /\ last' = [Step(op, merged, target_id, source_id, 0)
                                EXCEPT !.writes = 1 + (IF closed.ok THEN 1 ELSE 0),
                                       !.order = <<"store", "store", "log", "log">>]
             ELSE /\ last' = [Step(op, failed, target_id, source_id, 0)
                                EXCEPT !.order = <<"store">>]
                  /\ UNCHANGED <<actions, history>>

\* the store and log writes of a merge once its checks have passed
\* (admin.py lines 121-146, main.py lines 206-232)
MergeInto(op, source_id, target_id, merge_reason, actor, merged, failed) ==
    LET source_action == get_action_by_id(actions, source_id)
        target_action == get_action_by_id(actions, target_id)
    IN \E merged_metadata \in _merge_metadata(target_action.metadata,
                                              source_action.metadata) :
          LET written == update_action(actions, target_id,
                                       [metadata |-> merged_metadata])
              closed == update_action(written.rows, source_id, [status |-> CLOSED])
          IN IF written.ok
             THEN /\ actions' = closed.rows
                  /\ history' = log_action_closure(
                                   log_action_merge(history, source_id, target_id,
                                                    merge_reason, actor),
                                   source_id, "Merged into another action", "None",
                                   actor)
                  /\ last' = [Step(op, merged, target_id, source_id, 0)
                                EXCEPT !.writes = 1 + (IF closed.ok THEN 1 ELSE 0),
                                       !.order = <<"store", "store", "log", "log">>]
             ELSE /\ last' = [Step(op, failed, target_id, source_id, 0)
                                EXCEPT !.order = <<"store">>]
                  /\ UNCHANGED <<actions, history>>

AdminClose(action_id) ==
    /\ Idle
    /\ Len(history) + 1 <= MaxHistory
    /\ LET action == get_action_by_id(actions, action_id)
           written == update_action(actions, action_id, [status |-> CLOSED])
       IN IF action = NoAction
          THEN /\ last' = Step("admin_close", "not_found", action_id, NoId, 0)
               /\ UNCHANGED <<actions, history>>
          ELSE IF action.status = CLOSED
          THEN /\ last' = Step("admin_close", "already_closed", action_id, NoId, 0)
               /\ UNCHANGED <<actions, history>>
          ELSE IF written.ok
          THEN /\ actions' = written.rows
               /\ history' = log_action_closure(history, action_id, "Closed by admin",
                                                "None", "admin")
               /\ last' = [Step("admin_close", "closed", action_id, NoId, 0)
                             EXCEPT !.writes = 1, !.order = <<"store", "log">>]
          ELSE /\ last' = [Step("admin_close", "failed", action_id, NoId, 0)
                             EXCEPT !.order = <<"store">>]
               /\ UNCHANGED <<actions, history>>
    /\ UNCHANGED <<pc, client, snapshot, extracted_actions, handled, stats>>

\* Faulty variant (sensitivity of C10): merge_actions without the comparison
\* of the two client ids
AdminMergeUnchecked(source_id, target_id) ==
    /\ Idle
    /\ Len(history) + 2 <= MaxHistory
    /\ LET source_action == get_action_by_id(actions, source_id)
           target_action == get_action_by_id(actions, target_id)
       IN IF source_action = NoAction \/ target_action = NoAction
          THEN /\ last' = Step("admin_merge", "not_found", target_id, source_id, 0)
               /\ UNCHANGED <<actions, history>>
          ELSE MergeInto("admin_merge", source_id, target_id, "Merged by admin",
                         "admin", "merged", "failed")
    /\ UNCHANGED <<pc, client, snapshot, extracted_actions, handled, stats>>

AdminMerge(source_id, target_id) ==
    /\ Idle
    /\ Len(history) + 2 <= MaxHistory
    /\ LET source_action == get_action_by_id(actions, source_id)
           target_action == get_action_by_id(actions, target_id)
       IN IF source_action = NoAction \/ target_action = NoAction
          THEN /\ last' = Step("admin_merge", "not_found", target_id, source_id, 0)
               /\ UNCHANGED <<actions, history>>
          ELSE IF source_action.client_id # target_action.client_id
          THEN /\ last' = Step("admin_merge", "cross_client", target_id, source_id, 0)
               /\ UNCHANGED <<actions, history>>
          ELSE MergeInto("admin_merge", source_id, target_id, "Merged by admin",
                         "admin", "merged", "failed")
    /\ UNCHANGED <<pc, client, snapshot, extracted_actions, handled, stats>>

\* Faulty variant (sensitivity of C13): the close endpoint without the lookup
\* of the action, the closure logged whatever update_action returns
HttpCloseUnchecked(action_id) ==
    /\ Idle
    /\ Len(history) + 1 <= MaxHistory
    /\ LET written == update_action(actions, action_id, [status |-> CLOSED])
       IN /\ actions' = written.rows
          /\ history' = log_action_closure(history, action_id, "Closed by user",
                                           "None", "user")
          /\ last' = [Step("http_close", "200", action_id, NoId, 0)
                        EXCEPT !.writes = IF written.ok THEN 1 ELSE 0,
                               !.order = <<"store", "log">>]
    /\ UNCHANGED <<pc, client, snapshot, extracted_actions, handled, stats>>

HttpClose(action_id) ==
    /\ Idle
    /\ Len(history) + 1 <= MaxHistory
    /\ LET action == get_action_by_id(actions, action_id)
           written == update_action(actions, action_id, [status |-> CLOSED])
       IN IF action = NoAction
          THEN /\ last' = Step("http_close", "404", action_id, NoId, 0)
               /\ UNCHANGED <<actions, history>>
          ELSE IF ~written.ok
          THEN /\ last' = [Step("http_close", "500", action_id, NoId, 0)
                             EXCEPT !.order = <<"store">>]
               /\ UNCHANGED <<actions, history>>
          ELSE /\ actions' = written.rows
               /\ history' = log_action_closure(history, action_id, "Closed by user",
                                                "None", "user")
               /\ last' = [Step("http_close", "200", action_id, NoId, 0)
                             EXCEPT !.writes = 1, !.order = <<"store", "log">>]
    /\ UNCHANGED <<pc, client, snapshot, extracted_actions, handled, stats>>

HttpMerge(source_action_id, target_action_id) ==
    /\ Idle
    /\ Len(history) + 2 <= MaxHistory
    /\ LET source_action == get_action_by_id(actions, source_action_id)
           target_action == get_action_by_id(actions, target_action_id)
       IN IF source_action = NoAction \/ target_action = NoAction
          THEN /\ last' = Step("http_merge", "404", target_action_id,
                               source_action_id, 0)
               /\ UNCHANGED <<actions, history>>
          ELSE IF source_action.client_id # target_action.client_id
          THEN /\ last' = Step("http_merge", "400", target_action_id,
                               source_action_id, 0)
               /\ UNCHANGED <<actions, history>>
          ELSE MergeInto("http_merge", source_action_id, target_action_id,
                         "Manual merge by user", "user", "200", "500")
    /\ UNCHANGED <<pc, client, snapshot, extracted_actions, handled, stats>>

-----------------------------------------------------------------------------
(* Specifications.  Spec: one caller at a time, as the single-threaded     *)
(* service and console run; a call may carry several candidates.           *)
(* SpecConc: two callers of process_chat, each call carrying the one       *)
(* candidate extract_actions yields for a message, whose database calls    *)
(* interleave.                                                             *)

\* the ids an operator or a request can name: the stored ones and one absent
Ids == 1..(Len(actions) + 1)

\* a call with a batch of n candidates, for the n the history bound leaves room for
Call(p) ==
    \E c \in Clients : \E n \in 1..MaxBatch :
        /\ Len(history) + n <= MaxHistory
        /\ \E batch \in Batches(c, n) : Begin(p, c, batch)

Next ==
    \/ Idle /\ Call(1)
    \/ HandleCandidate(1)
    \/ Return(1)
    \/ \E i \in Ids : AdminClose(i)
    \/ \E i \in Ids : HttpClose(i)
    \/ \E i, j \in Ids : AdminMerge(i, j)
    \/ \E i, j \in Ids : HttpMerge(i, j)

Spec == Init /\ [][Next]_vars

\* history_logger.get_operation_summary: the loop over the action's history
\* as get_action_history returns it; first_operation is the entry the loop
\* meets first and last_operation the one it meets last
get_operation_summary(entries, action_id) ==
    LET own == get_action_history(entries, action_id)
        op_types == {own[i].operation : i \in DOMAIN own}
    IN [total_operations |-> Len(own),
        operation_counts |->
            [op_type \in op_types |->
               Cardinality({i \in DOMAIN own : own[i].operation = op_type})],
        first_operation |-> IF own = <<>> THEN None ELSE own[1],
        last_operation |-> IF own = <<>> THEN None ELSE own[Len(own)],
        source_messages |->
            {own[i].source_message_id : i \in DOMAIN own} \ {"None"},
        actors |-> {own[i].actor : i \in DOMAIN own}]

\* main.py GET /actions/{action_id}/history: 404 for an absent action, else
\* the history and its summary; nothing is written
HttpHistory(action_id) ==
    /\ Idle
    /\ IF get_action_by_id(actions, action_id) = NoAction
       THEN last' = Step("http_history", "404", action_id, NoId, 0)
       ELSE last' = [op |-> "http_history", result |-> "200", id |-> action_id,
                     history |-> get_action_history(history, action_id),
                     summary |-> get_operation_summary(history, action_id)]
    /\ UNCHANGED <<actions, history, pc, client, snapshot, extracted_actions,
                   handled, stats>>

\* the operations of Spec, with the reads of the history
NextHistory ==
    \/ Next
    \/ \E i \in Ids : HttpHistory(i)

SpecHistory == Init /\ [][NextHistory]_vars

MessageCall(p) ==
    \E c \in Clients : \E extracted_action \in CandidatesOf(c) :
        Begin(p, c, <<extracted_action>>)

NextConc ==
    \E p \in Procs :
        \/ MessageCall(p)
        \/ HandleCandidate(p)
        \/ Return(p)

SpecConc == Init /\ [][NextConc]_vars

-----------------------------------------------------------------------------
(* main.py: POST /process_chat.  In SpecChat caller 2 is the request being *)
(* served and caller 1 the process_extracted_actions call it makes for a   *)
(* message: client[2] is request.client_id, extracted_actions[2] is        *)
(* request.messages, handled[2] the number of messages the loop of line 64 *)
(* has passed, and stats[2] is total_stats.  A message is given by what    *)
(* save_message and extract_actions return for it: `saved` is whether      *)
(* save_message returned a row id (it returns 0 for a message_id that is   *)
(* already stored, INSERT OR IGNORE), extracted_actions the list of        *)
(* candidates, of length 0 or 1.                                           *)

MaxMessages == 2

\* the candidates of the messages of a request
ChatCandidates(client_id) ==
    CandidatesOf(client_id)
      \cap {CandRequestPdf, CandSubmittedPdf, CandPanNumberIs, CandRequestUrl}

ChatMessages(client_id) ==
    {[saved |-> TRUE, extracted_actions |-> <<c>>] : c \in ChatCandidates(client_id)}
      \cup {[saved |-> TRUE, extracted_actions |-> <<>>],
            [saved |-> FALSE, extracted_actions |-> <<CandRequestUrl>>]}

AddStats(total_stats, s) ==
    [key \in DOMAIN total_stats |-> total_stats[key] + s[key]]

\* lines 54-62: the request accepted, the totals at zero
ChatBegin(client_id, messages) ==
    /\ Idle
    /\ Len(history) + Len(messages) <= MaxHistory
    /\ pc' = [pc EXCEPT ![2] = "chat"]
    /\ client' = [client EXCEPT ![2] = client_id]
    /\ extracted_actions' = [extracted_actions EXCEPT ![2] = messages]
    /\ handled' = [handled EXCEPT ![2] = 0]
    /\ stats' = [stats EXCEPT ![2] = ZeroStats]
    /\ last' = Step("process_chat", "", NoId, NoId, 2)
    /\ UNCHANGED <<actions, history, snapshot>>

\* the call of lines 84-90 entered with the given list read at line 32 of
\* matcher.py
ChatEnter(chat_message, existing) ==
    /\ Len(actions) + Creates(chat_message.extracted_actions, existing) <= MaxActions
    /\ pc' = [pc EXCEPT ![1] = "loop"]
    /\ client' = [client EXCEPT ![1] = client[2]]
    /\ snapshot' = [snapshot EXCEPT ![1] = existing]
    /\ extracted_actions' =
          [extracted_actions EXCEPT ![1] = chat_message.extracted_actions]
    /\ handled' = [handled EXCEPT ![1] = 0]
    /\ stats' = [stats EXCEPT ![1] = ZeroStats]
    /\ last' = Step("begin", "", NoId, NoId, 1)
    /\ UNCHANGED <<actions, history>>

\* Faulty variant (sensitivity of C38): the list of existing actions without
\* the actions created for earlier messages of the request
ChatCallIgnoringNew(chat_message) ==
    ChatEnter(chat_message,
              get_open_actions(SubSeq(actions, 1,
                                      Len(actions) - stats[2].created
                                        - stats[2].tentative),
                               client[2]))

\* lines 84-90 and matcher.py lines 25-32: process_extracted_actions called
\* with the candidates of the message, the open and tentative actions of the
\* client read at the call
ChatCall(chat_message) ==
    ChatEnter(chat_message, get_open_actions(actions, client[2]))

\* lines 64-90 and 95 for the next message of the request: the call for a
\* message that was saved and has candidates, no call for any other
ChatMessage ==
    /\ pc[2] = "chat"
    /\ pc[1] = "idle"
    /\ handled[2] < Len(extracted_actions[2])
    /\ LET chat_message == extracted_actions[2][handled[2] + 1]
       IN IF chat_message.saved /\ chat_message.extracted_actions # <<>>
          THEN ChatCall(chat_message)
          ELSE /\ handled' = [handled EXCEPT ![2] = @ + 1]
               /\ last' = Step("skip", "", NoId, NoId, 2)
               /\ UNCHANGED <<actions, history, pc, client, snapshot,
                              extracted_actions, stats>>

\* matcher.py line 59 and lines 92-95: the call returns its stats, which are
\* added to total_stats
ChatCollect ==
    /\ pc[2] = "chat"
    /\ pc[1] = "loop"
    /\ handled[1] = Len(extracted_actions[1])
    /\ pc' = [pc EXCEPT ![1] = "idle"]
    /\ snapshot' = [snapshot EXCEPT ![1] = <<>>]
    /\ client' = [client EXCEPT ![1] = "c1"]
    /\ extracted_actions' = [extracted_actions EXCEPT ![1] = <<>>]
    /\ handled' = [handled EXCEPT ![1] = 0, ![2] = @ + 1]
    /\ stats' = [stats EXCEPT ![1] = ZeroStats, ![2] = AddStats(@, stats[1])]
    /\ last' = Step("return", "", NoId, NoId, 1)
    /\ UNCHANGED <<actions, history>>

\* lines 97-116: the response
ChatReturn ==
    /\ pc[2] = "chat"
    /\ pc[1] = "idle"
    /\ handled[2] = Len(extracted_actions[2])
    /\ pc' = [pc EXCEPT ![2] = "idle"]
    /\ client' = [client EXCEPT ![2] = "c1"]
    /\ extracted_actions' = [extracted_actions EXCEPT ![2] = <<>>]
    /\ handled' = [handled EXCEPT ![2] = 0]
    /\ stats' = [stats EXCEPT ![2] = ZeroStats]
    /\ last' = [op |-> "response",
                processed_messages |->
                    Cardinality({i \in DOMAIN extracted_actions[2] :
                                    extracted_actions[2][i].saved}),
                created_actions |-> stats[2].created,
                updated_actions |-> stats[2].updated,
                closed_actions |-> stats[2].closed,
                tentative_actions |-> stats[2].tentative]
    /\ UNCHANGED <<actions, history, snapshot>>

NextChat ==
    \/ \E c \in Clients : \E n \in 1..MaxMessages :
          \E messages \in [1..n -> ChatMessages(c)] : ChatBegin(c, messages)
    \/ ChatMessage
    \/ HandleCandidate(1)
    \/ ChatCollect
    \/ ChatReturn

SpecChat == Init /\ [][NextChat]_vars

-----------------------------------------------------------------------------
(* SpecSingle: one caller reconciling one message at a time, each call     *)
(* carrying one candidate, with the admin and HTTP operations between the  *)
(* calls.                                                                  *)

NextSingle ==
    \/ Idle /\ MessageCall(1)
    \/ HandleCandidate(1)
    \/ Return(1)
    \/ Idle /\ \E i \in Ids : AdminClose(i)
    \/ Idle /\ \E i \in Ids : HttpClose(i)
    \/ Idle /\ \E i, j \in Ids : AdminMerge(i, j)
    \/ Idle /\ \E i, j \in Ids : HttpMerge(i, j)

SpecSingle == Init /\ [][NextSingle]_vars

-----------------------------------------------------------------------------
(* SpecPlain: one caller reconciling one message at a time, the messages   *)
(* those of PlainCandidates.                                               *)

PlainCall(p) ==
    \E extracted_action \in PlainCandidates : Begin(p, "c1", <<extracted_action>>)

NextPlain ==
    \/ Idle /\ PlainCall(1)
    \/ HandleCandidate(1)
    \/ Return(1)

SpecPlain == Init /\ [][NextPlain]_vars

-----------------------------------------------------------------------------
(* SpecPure: the task key and the fuzzy score as functions of their        *)
(* inputs.  The initial states draw the inputs (in `last`), and one step   *)
(* applies the function to them.  The candidates range over every value of *)
(* the fields of ExtractedAction that _create_action can set, combined     *)
(* freely.                                                                 *)

MaxDen == 4

PAN2 == "PQRST5678K"

NoPan == "None"

PanValues == {PAN1, PAN2}

DeliverableTypes == {"photo", "pdf", "number", "text", "url", "attachment"}

Senders == {"client", "rm"}

\* the metadata _create_action builds from the PAN number and the urls found
MetadataOf(pan, urls) ==
    [k \in (IF pan # NoPan THEN {"pan_number"} ELSE {})
             \cup (IF urls # <<>> THEN {"urls"} ELSE {}) |->
        IF k = "pan_number" THEN Str(pan) ELSE List(urls)]

\* ExtractedAction's default confidence (1.0) and the one _create_action sets
Confidences == {Frac(1, 1), Frac(8, 10)}

\* the candidates with the given inputs of the task key, over every task
\* text, urls, status hint and confidence
CandidatesWith(task_type, pan, deliverable_type, sender) ==
    {[ExtractedAction(task_type, sender, status_hint, MetadataOf(pan, urls),
                      deliverable_type, suffix)
        EXCEPT !.confidence = confidence] :
        status_hint \in StatusHints, urls \in {<<>>, <<URL1>>},
        suffix \in Suffixes, confidence \in Confidences}

KeyInputs ==
    TaskTypes \X (PanValues \cup {NoPan}) \X (DeliverableTypes \cup {NoDeliverable})
      \X Senders

\* the action rows the candidates of the pool are stored as
StoredRows ==
    {[NewAction(c, client_id, _compute_task_key(c), status) EXCEPT !.id = 1] :
        c \in Candidates, client_id \in Clients, status \in {OPEN, TENTATIVE}}

\* a dict of strings as a metadata value
Dict(d) == [kind |-> "dict", val |-> d]

MaxKeys == 2

MetaKeys == {"pan_number", "deliverable_type", "urls", "priority", "extra"}

\* the values drawn for a key: the PAN numbers, two deliverable types (and a
\* list in their place), url lists (re.findall keeps a url found twice), the
\* free-form keys `priority` (a str) and `extra` (a dict, or a str in its
\* place)
MetaValues(key) ==
    CASE key = "pan_number" -> {Str(PAN1), Str(PAN2)}
      [] key = "deliverable_type" -> {Str("photo"), Str("pdf"), List(<<"pdf", "pdf">>)}
      [] key = "urls" -> {List(<<URL1>>), List(<<URL2>>), List(<<URL1, URL1>>)}
      [] key = "priority" -> {Str("high"), Str("low"), Str("soon")}
      [] key = "extra" -> {Dict([a |-> "1"]), Dict([a |-> "2", b |-> "3"]), Str("x")}

\* the metadata dicts with at most MaxKeys of the keys
MetadataDicts ==
    UNION {{m \in [D -> UNION {MetaValues(k) : k \in D}] :
              \A k \in D : m[k] \in MetaValues(k)} :
           D \in {E \in SUBSET MetaKeys : Cardinality(E) <= MaxKeys}}

\* the fractions n/d of [0, 1] with d <= MaxDen
UnitFractions == {Frac(n[1], n[2]) : n \in {m \in (0..MaxDen) \X (1..MaxDen) : m[1] <= m[2]}}

\* the inputs drawn: a candidate for the task key; a candidate of the pool
\* and a stored action for the fuzzy score; the two comparisons and the two
\* scores for its sum
InitPure ==
    /\ actions = <<>>
    /\ history = <<>>
    /\ pc = [p \in Procs |-> "idle"]
    /\ client = [p \in Procs |-> "c1"]
    /\ snapshot = [p \in Procs |-> <<>>]
    /\ extracted_actions = [p \in Procs |-> <<>>]
    /\ handled = [p \in Procs |-> 0]
    /\ stats = [p \in Procs |-> ZeroStats]
    /\ \/ \E k \in KeyInputs : \E c \in CandidatesWith(k[1], k[2], k[3], k[4]) :
             last = [op |-> "key_input", extracted_action |-> c]
       \/ \E c \in Candidates : \E a \in StoredRows :
             last = [op |-> "pair_input", extracted_action |-> c,
                     existing_action |-> a]
       \/ \E t \in BOOLEAN : \E e \in UnitFractions :
             \E r \in UnitFractions : \E o \in BOOLEAN :
                last = [op |-> "score_input", type_equal |-> t, entity_score |-> e,
                        text_similarity |-> r, owner_equal |-> o]

\* _compute_task_key applied to the candidate drawn
ComputeTaskKey ==
    /\ last.op = "key_input"
    /\ last' = [op |-> "task_key",
                extracted_action |-> last.extracted_action,
                task_key |-> _compute_task_key(last.extracted_action)]
    /\ UNCHANGED <<actions, history, pc, client, snapshot, extracted_actions,
                   handled, stats>>

\* _compute_fuzzy_score applied to the candidate and the stored action drawn
ComputeFuzzyScore ==
    /\ last.op = "pair_input"
    /\ last' = [op |-> "fuzzy_score",
                extracted_action |-> last.extracted_action,
                existing_action |-> last.existing_action,
                score |-> _compute_fuzzy_score(last.extracted_action,
                                               last.existing_action)]
    /\ UNCHANGED <<actions, history, pc, client, snapshot, extracted_actions,
                   handled, stats>>

\* the sum of _compute_fuzzy_score, lines 105-127, on the two comparisons and
\* the two scores drawn
ComputeScore ==
    /\ last.op = "score_input"
    /\ last' = [op |-> "score",
                type_equal |-> last.type_equal,
                entity_score |-> last.entity_score,
                text_similarity |-> last.text_similarity,
                owner_equal |-> last.owner_equal,
                score |-> FuzzyScore(last.type_equal, last.entity_score,
                                     last.text_similarity, last.owner_equal)]
    /\ UNCHANGED <<actions, history, pc, client, snapshot, extracted_actions,
                   handled, stats>>

\* _merge_metadata applied to the two dicts drawn: one step per dict it can
\* return
MergeMetadata ==
    /\ last.op = "metadata_input"
    /\ \E merged \in _merge_metadata(last.existing_metadata, last.new_metadata) :
          last' = [op |-> "merged",
                   existing_metadata |-> last.existing_metadata,
                   new_metadata |-> last.new_metadata,
                   merged |-> merged]
    /\ UNCHANGED <<actions, history, pc, client, snapshot, extracted_actions,
                   handled, stats>>

\* _compute_entity_match_score applied to the two dicts drawn
ComputeEntityMatchScore ==
    /\ last.op = "metadata_input"
    /\ last' = [op |-> "entity_score",
                existing_metadata |-> last.existing_metadata,
                new_metadata |-> last.new_metadata,
                score |-> _compute_entity_match_score(last.new_metadata,
                                                      last.existing_metadata)]
    /\ UNCHANGED <<actions, history, pc, client, snapshot, extracted_actions,
                   handled, stats>>

NextPure ==
    \/ ComputeTaskKey
    \/ ComputeFuzzyScore
    \/ ComputeScore

SpecPure == InitPure /\ [][NextPure]_vars

\* the tables empty and both callers idle, as in the pure specifications
NoCalls ==
    /\ actions = <<>>
    /\ history = <<>>
    /\ pc = [p \in Procs |-> "idle"]
    /\ client = [p \in Procs |-> "c1"]
    /\ snapshot = [p \in Procs |-> <<>>]
    /\ extracted_actions = [p \in Procs |-> <<>>]
    /\ handled = [p \in Procs |-> 0]
    /\ stats = [p \in Procs |-> ZeroStats]

-----------------------------------------------------------------------------
(* SpecMetadata: _merge_metadata and _compute_entity_match_score as        *)
(* functions of two metadata dicts.                                        *)

InitMetadata ==
    /\ NoCalls
    /\ \E existing_metadata \in MetadataDicts :
          \E new_metadata \in MetadataDicts :
             last = [op |-> "metadata_input",
                     existing_metadata |-> existing_metadata,
                     new_metadata |-> new_metadata]

NextMetadata ==
    \/ MergeMetadata
    \/ ComputeEntityMatchScore

SpecMetadata == InitMetadata /\ [][NextMetadata]_vars

-----------------------------------------------------------------------------
(* SpecMatch: _find_best_match as a function of the candidate and of the   *)
(* list of existing actions.                                               *)

\* rows that score 0 against every candidate of the pool: another task type,
\* the foreign text, another PAN number, and either owner
ForeignRows ==
    {[id |-> 1, client_id |-> "c1", task_type |-> "other", task_text |-> ForeignText,
      task_key |-> "other_" \o owner, owner |-> owner, status |-> OPEN,
      metadata |-> PanMeta(PAN2)] : owner \in Senders}

\* the rows a list of existing actions of client c1 is drawn from
RowPool == {a \in StoredRows : a.client_id = "c1"} \cup ForeignRows

\* the list drawn, numbered as get_open_actions returns it: newest first
Numbered(rows) == [i \in DOMAIN rows |-> [rows[i] EXCEPT !.id = Len(rows) - i + 1]]

InitMatch ==
    /\ NoCalls
    /\ \E extracted_action \in Candidates : \E n \in 0..MaxActions :
          \E rows \in [1..n -> RowPool] :
             last = [op |-> "match_input", extracted_action |-> extracted_action,
                     existing_actions |-> Numbered(rows)]

\* process_extracted_actions, lines 32-33: the task key computed, and
\* _find_best_match applied
FindBestMatch ==
    /\ last.op = "match_input"
    /\ last' = [op |-> "best_match",
                extracted_action |-> last.extracted_action,
                existing_actions |-> last.existing_actions,
                match_result |->
                    _find_best_match(last.extracted_action, last.existing_actions,
                                     _compute_task_key(last.extracted_action))]
    /\ UNCHANGED <<actions, history, pc, client, snapshot, extracted_actions,
                   handled, stats>>

NextMatch == FindBestMatch

SpecMatch == InitMatch /\ [][NextMatch]_vars

-----------------------------------------------------------------------------
(* nlp.py: RuleBasedExtractor on a message text.  A text is a sequence of   *)
(* words, the words of the message between its single spaces; a word is a  *)
(* str without white space, spelled out in characters for the searches.    *)

MaxWords == 3

\* the words the messages are made of
Vocabulary ==
    {"send", "share", "received", "update", "is", "PAN",
     "card", "aadhaar", "photo", "document", "number", PAN1,
     URL1, "attached", "certificate", "link"}

\* the characters of a word or of a literal piece of a pattern
Spell(s) ==
    CASE s = "#" -> <<"#">>
      [] s = "ABCDE1234F" -> <<"A", "B", "C", "D", "E", "1", "2", "3", "4", "F">>
      [] s = "PAN" -> <<"P", "A", "N">>
      [] s = "aadhaar" -> <<"a", "a", "d", "h", "a", "a", "r">>
      [] s = "aadhar" -> <<"a", "a", "d", "h", "a", "r">>
      [] s = "account" -> <<"a", "c", "c", "o", "u", "n", "t">>
      [] s = "address" -> <<"a", "d", "d", "r", "e", "s", "s">>
      [] s = "are" -> <<"a", "r", "e">>
      [] s = "attached" -> <<"a", "t", "t", "a", "c", "h", "e", "d">>
      [] s = "attachment" -> <<"a", "t", "t", "a", "c", "h", "m", "e", "n", "t">>
      [] s = "bank" -> <<"b", "a", "n", "k">>
      [] s = "banking" -> <<"b", "a", "n", "k", "i", "n", "g">>
      [] s = "bill" -> <<"b", "i", "l", "l">>
      [] s = "card" -> <<"c", "a", "r", "d">>
      [] s = "certificate" -> <<"c", "e", "r", "t", "i", "f", "i", "c", "a", "t", "e">>
      [] s = "change" -> <<"c", "h", "a", "n", "g", "e">>
      [] s = "collected" -> <<"c", "o", "l", "l", "e", "c", "t", "e", "d">>
      [] s = "copy" -> <<"c", "o", "p", "y">>
      [] s = "correct" -> <<"c", "o", "r", "r", "e", "c", "t">>
      [] s = "details" -> <<"d", "e", "t", "a", "i", "l", "s">>
      [] s = "digital" -> <<"d", "i", "g", "i", "t", "a", "l">>
      [] s = "document" -> <<"d", "o", "c", "u", "m", "e", "n", "t">>
      [] s = "file" -> <<"f", "i", "l", "e">>
      [] s = "furnish" -> <<"f", "u", "r", "n", "i", "s", "h">>
      [] s = "give" -> <<"g", "i", "v", "e">>
      [] s = "got" -> <<"g", "o", "t">>
      [] s = "headshot" -> <<"h", "e", "a", "d", "s", "h", "o", "t">>
      [] s = "here" -> <<"h", "e", "r", "e">>
      [] s = "http" -> <<"h", "t", "t", "p">>
      [] s = "https://a.example/pan" -> <<"h", "t", "t", "p", "s", ":", "/", "/", "a", ".", "e", "x", "a", "m", "p", "l", "e", "/", "p", "a", "n">>
      [] s = "identification" -> <<"i", "d", "e", "n", "t", "i", "f", "i", "c", "a", "t", "i", "o", "n">>
      [] s = "image" -> <<"i", "m", "a", "g", "e">>
      [] s = "income" -> <<"i", "n", "c", "o", "m", "e">>
      [] s = "is" -> <<"i", "s">>
      [] s = "link" -> <<"l", "i", "n", "k">>
      [] s = "modify" -> <<"m", "o", "d", "i", "f", "y">>
      [] s = "no." -> <<"n", "o", ".">>
      [] s = "number" -> <<"n", "u", "m", "b", "e", "r">>
      [] s = "obtained" -> <<"o", "b", "t", "a", "i", "n", "e", "d">>
      [] s = "pan" -> <<"p", "a", "n">>
      [] s = "paper" -> <<"p", "a", "p", "e", "r">>
      [] s = "passport" -> <<"p", "a", "s", "s", "p", "o", "r", "t">>
      [] s = "pay" -> <<"p", "a", "y">>
      [] s = "pdf" -> <<"p", "d", "f">>
      [] s = "permanent" -> <<"p", "e", "r", "m", "a", "n", "e", "n", "t">>
      [] s = "photo" -> <<"p", "h", "o", "t", "o">>
      [] s = "photograph" -> <<"p", "h", "o", "t", "o", "g", "r", "a", "p", "h">>
      [] s = "picture" -> <<"p", "i", "c", "t", "u", "r", "e">>
      [] s = "profile" -> <<"p", "r", "o", "f", "i", "l", "e">>
      [] s = "proof" -> <<"p", "r", "o", "o", "f">>
      [] s = "provide" -> <<"p", "r", "o", "v", "i", "d", "e">>
      [] s = "received" -> <<"r", "e", "c", "e", "i", "v", "e", "d">>
      [] s = "residence" -> <<"r", "e", "s", "i", "d", "e", "n", "c", "e">>
      [] s = "revise" -> <<"r", "e", "v", "i", "s", "e">>
      [] s = "salary" -> <<"s", "a", "l", "a", "r", "y">>
      [] s = "send" -> <<"s", "e", "n", "d">>
      [] s = "share" -> <<"s", "h", "a", "r", "e">>
      [] s = "sign" -> <<"s", "i", "g", "n">>
      [] s = "signature" -> <<"s", "i", "g", "n", "a", "t", "u", "r", "e">>
      [] s = "size" -> <<"s", "i", "z", "e">>
      [] s = "slip" -> <<"s", "l", "i", "p">>
      [] s = "statement" -> <<"s", "t", "a", "t", "e", "m", "e", "n", "t">>
      [] s = "submit" -> <<"s", "u", "b", "m", "i", "t">>
      [] s = "submitted" -> <<"s", "u", "b", "m", "i", "t", "t", "e", "d">>
      [] s = "uid" -> <<"u", "i", "d">>
      [] s = "unique" -> <<"u", "n", "i", "q", "u", "e">>
      [] s = "update" -> <<"u", "p", "d", "a", "t", "e">>
      [] s = "upload" -> <<"u", "p", "l", "o", "a", "d">>
      [] s = "uploaded" -> <<"u", "p", "l", "o", "a", "d", "e", "d">>
      [] s = "url" -> <<"u", "r", "l">>
      [] s = "utility" -> <<"u", "t", "i", "l", "i", "t", "y">>
      [] s = "wet" -> <<"w", "e", "t">>
      [] s = "www" -> <<"w", "w", "w">>

\* str.upper() on one character
UpperChar(ch) ==
    CASE ch = "a" -> "A"
      [] ch = "b" -> "B"
      [] ch = "c" -> "C"
      [] ch = "d" -> "D"
      [] ch = "e" -> "E"
      [] ch = "f" -> "F"
      [] ch = "g" -> "G"
      [] ch = "h" -> "H"
      [] ch = "i" -> "I"
      [] ch = "j" -> "J"
      [] ch = "k" -> "K"
      [] ch = "l" -> "L"
      [] ch = "m" -> "M"
      [] ch = "n" -> "N"
      [] ch = "o" -> "O"
      [] ch = "p" -> "P"
      [] ch = "q" -> "Q"
      [] ch = "r" -> "R"
      [] ch = "s" -> "S"
      [] ch = "t" -> "T"
      [] ch = "u" -> "U"
      [] ch = "v" -> "V"
      [] ch = "w" -> "W"
      [] ch = "x" -> "X"
      [] ch = "y" -> "Y"
      [] ch = "z" -> "Z"
      [] OTHER -> ch

Upper(q) == [i \in DOMAIN q |-> UpperChar(q[i])]

UpperLetters == {"A", "B", "C", "D", "E", "F", "G", "H", "I", "J", "K", "L", "M",
                 "N", "O", "P", "Q", "R", "S", "T", "U", "V", "W", "X", "Y", "Z"}

Digits == {"0", "1", "2", "3", "4", "5", "6", "7", "8", "9"}

\* the str of a sequence of characters
RECURSIVE StrOf(_)
StrOf(q) == IF q = <<>> THEN "" ELSE Head(q) \o StrOf(Tail(q))

\* task_patterns, in the order of the dict; a pattern is the sequence of the
\* literal pieces that \s+ separates
task_patterns ==
    <<[task_type |-> "pan_card",
       patterns |-> {<<"pan", "card">>, <<"pan", "number">>, <<"permanent", "account", "number">>, <<"pan", "document">>, <<"pan", "copy">>}],
      [task_type |-> "aadhaar",
       patterns |-> {<<"aadhaar">>, <<"aadhar">>, <<"uid">>, <<"unique", "identification">>, <<"aadhaar", "card">>, <<"aadhaar", "number">>}],
      [task_type |-> "bank_statement",
       patterns |-> {<<"bank", "statement">>, <<"bank", "statement", "pdf">>, <<"bank", "details">>, <<"account", "statement">>, <<"banking", "statement">>}],
      [task_type |-> "income_proof",
       patterns |-> {<<"income", "proof">>, <<"salary", "certificate">>, <<"income", "certificate">>, <<"pay", "slip">>, <<"salary", "slip">>, <<"income", "document">>}],
      [task_type |-> "address_proof",
       patterns |-> {<<"address", "proof">>, <<"address", "document">>, <<"residence", "proof">>, <<"utility", "bill">>, <<"address", "certificate">>}],
      [task_type |-> "photo",
       patterns |-> {<<"photo">>, <<"photograph">>, <<"picture">>, <<"passport", "size", "photo">>, <<"profile", "picture">>, <<"headshot">>}],
      [task_type |-> "signature",
       patterns |-> {<<"signature">>, <<"sign">>, <<"digital", "signature">>, <<"wet", "signature">>}]>>

\* action_verbs; 'here is' and 'here are' hold a space
action_verbs(kind) ==
    CASE kind = "request" ->
            {<<"send">>, <<"provide">>, <<"upload">>, <<"share">>, <<"submit">>, <<"give">>, <<"furnish">>}
      [] kind = "completion" ->
            {<<"received">>, <<"collected">>, <<"got">>, <<"obtained">>, <<"submitted">>, <<"uploaded">>, <<"here", "is">>, <<"here", "are">>}
      [] kind = "modification" ->
            {<<"update">>, <<"change">>, <<"modify">>, <<"revise">>, <<"correct">>}

\* deliverable_patterns, in the order of the dict
deliverable_patterns ==
    <<[deliverable |-> "photo", patterns |-> {<<"photo">>, <<"image">>, <<"picture">>, <<"photograph">>}],
      [deliverable |-> "pdf", patterns |-> {<<"pdf">>, <<"document">>, <<"file">>}],
      [deliverable |-> "number", patterns |-> {<<"number">>, <<"no.">>, <<"#">>}],
      [deliverable |-> "url", patterns |-> {<<"url">>, <<"link">>, <<"http">>, <<"www">>}],
      [deliverable |-> "attachment", patterns |-> {<<"attachment">>, <<"attached">>, <<"file">>}]>>

general_doc_patterns == {<<"document">>, <<"paper">>, <<"certificate">>, <<"proof">>, <<"copy">>}

LowerLetters ==
    {"a", "b", "c", "d", "e", "f", "g", "h", "i", "j", "k", "l", "m",
     "n", "o", "p", "q", "r", "s", "t", "u", "v", "w", "x", "y", "z"}

\* the characters url_pattern accepts after '://': letters, digits, the
\* ASCII range from $ to _ and the characters ! * \ ( ) ,
UrlChars ==
    LowerLetters \cup UpperLetters \cup Digits
      \cup {"$", "%", "&", "'", "(", ")", "*", "+", ",", "-", ".", "/", ":", ";",
            "<", "=", ">", "?", "@", "[", "\\", "]", "^", "_", "!"}

\* piece in word, word.endswith(piece), word.startswith(piece)
Contains(q, piece) ==
    \E i \in 0..(Len(q) - Len(piece)) : SubSeq(q, i + 1, i + Len(piece)) = piece

EndsWith(q, piece) ==
    Len(q) >= Len(piece) /\ SubSeq(q, Len(q) - Len(piece) + 1, Len(q)) = piece

StartsWith(q, piece) ==
    Len(q) >= Len(piece) /\ SubSeq(q, 1, Len(piece)) = piece

\* pan_pattern matches the upper-cased characters u from position i on
PanAt(u, i) ==
    /\ i + 9 <= Len(u)
    /\ \A k \in 0..4 : u[i + k] \in UpperLetters
    /\ \A k \in 5..8 : u[i + k] \in Digits
    /\ u[i + 9] \in UpperLetters

\* re.search(pan_pattern, word.upper()): the leftmost match, or NoPan
PanIn(w) ==
    LET u == Upper(Spell(w))
        hits == {i \in 1..Len(u) : PanAt(u, i)}
    IN IF hits = {} THEN NoPan
       ELSE StrOf(SubSeq(u, SetMin(hits), SetMin(hits) + 9))

\* the last position of the longest run of url characters from position k on
RECURSIVE RunEnd(_, _)
RunEnd(q, k) ==
    IF k < Len(q) /\ q[k + 1] \in UrlChars THEN RunEnd(q, k + 1) ELSE k

\* the last position of the match of url_pattern that starts at position i,
\* 0 if none starts there: http, an optional s, ://, one url character or more
UrlEnd(q, i) ==
    LET http == <<"h", "t", "t", "p", ":", "/", "/">>
        https == <<"h", "t", "t", "p", "s", ":", "/", "/">>
        body == IF i + 6 <= Len(q) /\ SubSeq(q, i, i + 6) = http THEN i + 7
                ELSE IF i + 7 <= Len(q) /\ SubSeq(q, i, i + 7) = https THEN i + 8
                ELSE 0
    IN IF body = 0 \/ body > Len(q) THEN 0
       ELSE IF q[body] \notin UrlChars THEN 0
       ELSE RunEnd(q, body)

\* re.findall(url_pattern, word): the matches from position i on, in order
RECURSIVE UrlsFrom(_, _)
UrlsFrom(q, i) ==
    IF i > Len(q) THEN <<>>
    ELSE IF UrlEnd(q, i) = 0 THEN UrlsFrom(q, i + 1)
    ELSE <<StrOf(SubSeq(q, i, UrlEnd(q, i)))>> \o UrlsFrom(q, UrlEnd(q, i) + 1)

\* the literal pieces of all the patterns, with the substrings that line 64
\* and _generate_task_text test
Pieces ==
    UNION {Range(pattern) :
             pattern \in UNION {task_patterns[i].patterns : i \in DOMAIN task_patterns}
                           \cup UNION {deliverable_patterns[i].patterns :
                                         i \in DOMAIN deliverable_patterns}
                           \cup action_verbs("request") \cup action_verbs("completion")
                           \cup action_verbs("modification") \cup general_doc_patterns}
      \cup {"is", "are", "photo", "pdf", "number"}

\* what the searches find in each word: the pieces its lower-cased form
\* contains, ends with, starts with and equals, the PAN number in its
\* upper-cased form and the urls in it
WordTable ==
    {[word |-> w,
      contains |-> {p \in Pieces : Contains(Lower(Spell(w)), Spell(p))},
      ends |-> {p \in Pieces : EndsWith(Lower(Spell(w)), Spell(p))},
      starts |-> {p \in Pieces : StartsWith(Lower(Spell(w)), Spell(p))},
      equals |-> {p \in Pieces : Lower(Spell(w)) = Spell(p)},
      pan |-> PanIn(w),
      urls |-> UrlsFrom(Spell(w), 1)] : w \in Vocabulary}

Row(w) == CHOOSE r \in WordTable : r.word = w

\* re.search(pattern, text_lower): one piece lies within a word; pieces that
\* white space separates lie in consecutive words, the first at the end of
\* its word and the last at the start of its word
Search(pattern, text) ==
    LET n == Len(pattern)
    IN IF n = 1 THEN \E i \in DOMAIN text : pattern[1] \in Row(text[i]).contains
       ELSE \E i \in 1..(Len(text) - n + 1) :
              /\ pattern[1] \in Row(text[i]).ends
              /\ \A j \in 2..(n - 1) : pattern[j] \in Row(text[i + j - 1]).equals
              /\ pattern[n] \in Row(text[i + n - 1]).starts

\* any(re.search(pattern, text_lower) for pattern in patterns)
Found(patterns, text) == \E pattern \in patterns : Search(pattern, text)

\* re.search(pan_pattern, text.upper()): the match in the first word that has
\* one
PanOfText(text) ==
    LET hits == {i \in DOMAIN text : Row(text[i]).pan # NoPan}
    IN IF hits = {} THEN NoPan ELSE Row(text[SetMin(hits)]).pan

\* re.findall(url_pattern, text)
RECURSIVE UrlsOfText(_)
UrlsOfText(text) ==
    IF text = <<>> THEN <<>> ELSE Row(Head(text)).urls \o UrlsOfText(Tail(text))

\* the first deliverable of the table, from position i on, with a pattern in
\* the text
RECURSIVE DeliverableFrom(_, _)
DeliverableFrom(text, i) ==
    IF i > Len(deliverable_patterns) THEN NoDeliverable
    ELSE IF Found(deliverable_patterns[i].patterns, text)
    THEN deliverable_patterns[i].deliverable
    ELSE DeliverableFrom(text, i + 1)

\* the suffix _generate_task_text chooses from the raw text
SuffixOf(text) ==
    IF Search(<<"photo">>, text) THEN "photo"
    ELSE IF Search(<<"pdf">>, text) THEN "pdf"
    ELSE IF Search(<<"number">>, text) THEN "number"
    ELSE "none"

\* Faulty variant (sensitivity of C27): the deliverable keywords scanned
\* first, the urls deciding only when no keyword is found
_create_action_keywords_first(text, task_type, sender, status_hint) ==
    LET urls == UrlsOfText(text)
        deliverable_type ==
            IF DeliverableFrom(text, 1) # NoDeliverable THEN DeliverableFrom(text, 1)
            ELSE IF urls # <<>> THEN "url"
            ELSE NoDeliverable
    IN ExtractedAction(task_type, sender, status_hint,
                       MetadataOf(PanOfText(text), urls), deliverable_type,
                       SuffixOf(text))

_create_action(text, task_type, sender, status_hint) ==
    LET urls == UrlsOfText(text)
        deliverable_type == IF urls # <<>> THEN "url" ELSE DeliverableFrom(text, 1)
    IN ExtractedAction(task_type, sender, status_hint,
                       MetadataOf(PanOfText(text), urls), deliverable_type,
                       SuffixOf(text))

\* Faulty variant (sensitivity of C23): the matched types listed from the end
\* of the table, the last matching category coming first
RECURSIVE MatchedTypesBackFrom(_, _)
MatchedTypesBackFrom(text, i) ==
    IF i > Len(task_patterns) THEN <<>>
    ELSE MatchedTypesBackFrom(text, i + 1)
         \o (IF Found(task_patterns[i].patterns, text)
             THEN <<task_patterns[i].task_type>> ELSE <<>>)

\* matched_types: the task types, in table order from position i on, with a
\* pattern in the text
RECURSIVE MatchedTypesFrom(_, _)
MatchedTypesFrom(text, i) ==
    IF i > Len(task_patterns) THEN <<>>
    ELSE (IF Found(task_patterns[i].patterns, text)
          THEN <<task_patterns[i].task_type>> ELSE <<>>)
         \o MatchedTypesFrom(text, i + 1)

\* line 64: a PAN number in the upper-cased text and 'is' or 'are' in the
\* lower-cased text
PanStatement(text) ==
    PanOfText(text) # NoPan /\ (Search(<<"is">>, text) \/ Search(<<"are">>, text))

\* Faulty variant (sensitivity of C24): the modification verb tested first
status_hint_modify_first(is_completion, is_modification) ==
    IF is_modification THEN "modify"
    ELSE IF is_completion THEN "closed"
    ELSE NoHint

status_hint_of(is_completion, is_modification) ==
    IF is_completion THEN "closed"
    ELSE IF is_modification THEN "modify"
    ELSE NoHint

\* Variant (sensitivity of C26): the fallback open to the texts with a
\* request or completion verb only, the PAN statement of line 64 setting the
\* status hint alone
extract_actions_verbs_only(text, sender) ==
    LET is_request == Found(action_verbs("request"), text)
        has_completion_verb == Found(action_verbs("completion"), text)
        is_completion == has_completion_verb \/ PanStatement(text)
        is_modification == Found(action_verbs("modification"), text)
        status_hint == status_hint_of(is_completion, is_modification)
        matched_types == MatchedTypesFrom(text, 1)
        has_url == UrlsOfText(text) # <<>>
    IN IF matched_types # <<>>
       THEN <<_create_action(text, matched_types[1], sender, status_hint)>>
       ELSE IF (is_request \/ has_completion_verb)
               /\ (Found(general_doc_patterns, text) \/ has_url)
       THEN <<_create_action(text, "other", sender, status_hint)>>
       ELSE <<>>

\* extract_actions: the list it returns
extract_actions(text, sender) ==
    LET is_request == Found(action_verbs("request"), text)
        is_completion == Found(action_verbs("completion"), text) \/ PanStatement(text)
        is_modification == Found(action_verbs("modification"), text)
        status_hint == status_hint_of(is_completion, is_modification)
        matched_types == MatchedTypesFrom(text, 1)
        has_url == UrlsOfText(text) # <<>>
    IN IF matched_types # <<>>
       THEN <<_create_action(text, matched_types[1], sender, status_hint)>>
       ELSE IF (is_request \/ is_completion)
               /\ (Found(general_doc_patterns, text) \/ has_url)
       THEN <<_create_action(text, "other", sender, status_hint)>>
       ELSE <<>>

-----------------------------------------------------------------------------
(* SpecExtract: extract_actions as a function of the text and the sender.  *)

\* the senders: the two parties, and a string that is neither
AnySenders == {"rm", "client", "agent"}

InitExtract ==
    /\ NoCalls
    /\ \E n \in 0..MaxWords : \E text \in [1..n -> Vocabulary] :
          \E sender \in AnySenders :
             last = [op |-> "message", text |-> text, sender |-> sender]

ExtractActions ==
    /\ last.op = "message"
    /\ last' = [op |-> "extracted", text |-> last.text, sender |-> last.sender,
                actions |-> extract_actions(last.text, last.sender)]
    /\ UNCHANGED <<actions, history, pc, client, snapshot, extracted_actions,
                   handled, stats>>

NextExtract == ExtractActions

SpecExtract == InitExtract /\ [][NextExtract]_vars

-----------------------------------------------------------------------------
(* Properties.  A pass of caller p's loop is a step with Handling(p); the  *)
(* candidate it handles is Candidate(p), and BestMatch(p) is the result of *)
(* _find_best_match for it over the snapshot the call read.                *)

Handling(p) == pc[p] = "loop" /\ handled'[p] = handled[p] + 1

Candidate(p) == extracted_actions[p][handled[p] + 1]

BestMatch(p) ==
    _find_best_match(Candidate(p), snapshot[p], _compute_task_key(Candidate(p)))

\* exact, or fuzzy with confidence >= 0.85
UpdateMatch(m) ==
    \/ m.match_type = "exact"
    \/ m.match_type = "fuzzy" /\ FracGeq(m.confidence, Frac(85, 100))

\* fuzzy with 0.6 <= confidence < 0.85
TentativeMatch(m) ==
    /\ m.match_type = "fuzzy"
    /\ ~FracGeq(m.confidence, Frac(85, 100))
    /\ FracGeq(m.confidence, Frac(6, 10))

\* the step appends one row with the given status and changes no other row
Inserts(status) ==
    /\ Len(actions') = Len(actions) + 1
    /\ SubSeq(actions', 1, Len(actions)) = actions
    /\ actions'[Len(actions')].status = status

\* the step appends one history entry, for action_id and with the operation
Logs(action_id, operation) ==
    /\ Len(history') = Len(history) + 1
    /\ SubSeq(history', 1, Len(history)) = history
    /\ history'[Len(history')].action_id = action_id
    /\ history'[Len(history')].operation = operation

\* C1: an action whose stored status is closed stays closed in every later
\* state, and no step of any operation changes the status of an existing
\* action to open or tentative (a status that changes becomes closed).
C1_ClosedStaysClosed ==
    [][\A i \in DOMAIN actions :
          /\ i \in DOMAIN actions'
          /\ actions[i].status = CLOSED => actions'[i].status = CLOSED
          /\ actions'[i].status # actions[i].status => actions'[i].status = CLOSED]_vars

\* the reconciler has taken its update branch on an action that was closed
\* after the call read its snapshot, and the action is still closed
C1_Witness ==
    /\ last.op = "reconcile"
    /\ last.result = "update"
    /\ last.id \in DOMAIN actions
    /\ actions[last.id].status = CLOSED

\* C2: a pass of the reconciler's loop never changes the status of an action
\* whose stored status is tentative (only an administrative close or merge
\* takes an action out of the tentative state).
C2_ReconcilerKeepsTentative ==
    [][\A p \in Procs : Handling(p) =>
          \A i \in DOMAIN actions :
              actions[i].status = TENTATIVE => actions'[i].status = TENTATIVE]_vars

\* C3: for every candidate one branch is taken, fixed by the best match: exact
\* or fuzzy >= 0.85 updates (or closes) the matched action and inserts
\* nothing; fuzzy in [0.6, 0.85) inserts a tentative action and changes no
\* existing action; anything lower, or no match, inserts an open action and
\* changes no existing action.
C3_DecisionBranches ==
    [][\A p \in Procs : Handling(p) =>
          LET m == BestMatch(p)
          IN IF UpdateMatch(m)
             THEN /\ Len(actions') = Len(actions)
                  /\ \/ Logs(m.action_id, "update")
                     \/ Logs(m.action_id, "close")
                  /\ \A i \in DOMAIN actions : i # m.action_id => actions'[i] = actions[i]
             ELSE IF TentativeMatch(m)
             THEN Inserts(TENTATIVE) /\ Logs(Len(actions'), "create")
             ELSE Inserts(OPEN) /\ Logs(Len(actions'), "create")]_vars

\* a tentative action has just been created on a confidence of exactly 0.6
C3_Witness ==
    /\ last.op = "reconcile"
    /\ last.result = "tentative"
    /\ last.match = "fuzzy"
    /\ last.confidence.num * 10 = 6 * last.confidence.den
    /\ actions[last.id].status = TENTATIVE

\* C4: whenever a snapshot read by a call holds an action whose task_key is
\* the key of a candidate, _find_best_match returns exact, confidence 1.0 and
\* the id of the first such action in snapshot order, whatever the fuzzy
\* scores of the other snapshot actions.
C4_ExactMatchPrecedence ==
    \A p \in Procs : \A extracted_action \in Candidates :
        LET task_key == _compute_task_key(extracted_action)
            hits == {i \in DOMAIN snapshot[p] : snapshot[p][i].task_key = task_key}
        IN hits # {} =>
             _find_best_match(extracted_action, snapshot[p], task_key)
               = [action_id |-> snapshot[p][SetMin(hits)].id,
                  confidence |-> Frac(1, 1),
                  match_type |-> "exact"]

\* an exact match on the second snapshot action has just been acted on, the
\* first snapshot action having another key and a fuzzy score >= 0.85
C4_Witness ==
    \E p \in Procs :
        /\ pc[p] = "loop"
        /\ handled[p] > 0
        /\ Len(snapshot[p]) >= 2
        /\ last.op = "reconcile"
        /\ last.proc = p
        /\ last.match = "exact"
        /\ last.id = snapshot[p][2].id
        /\ snapshot[p][1].task_key # snapshot[p][2].task_key
        /\ FracGeq(_compute_fuzzy_score(extracted_actions[p][handled[p]],
                                        snapshot[p][1]),
                   Frac(85, 100))

\* C5: when the update branch is taken for a candidate whose status_hint is
\* not closed, afterwards the matched action's stored metadata is
\* merge(previously stored metadata, candidate metadata), its status is
\* unchanged, and one history entry with operation update is appended for it.
C5_UpdateStoresMergedMetadata ==
    [][\A p \in Procs :
          (Handling(p) /\ UpdateMatch(BestMatch(p))
             /\ Candidate(p).status_hint # "closed") =>
          LET action_id == BestMatch(p).action_id
          IN /\ actions'[action_id].metadata
                  \in _merge_metadata(actions[action_id].metadata,
                                      Candidate(p).metadata)
             /\ actions'[action_id].status = actions[action_id].status
             /\ Logs(action_id, "update")]_vars

\* C6: when the update branch is taken for a candidate whose status_hint is
\* closed, the matched action's status becomes closed and nothing else of it
\* or of any other action changes, one history entry with operation close is
\* appended for it, and only the closed counter is incremented.
C6_CloseLeavesFieldsAlone ==
    [][\A p \in Procs :
          (Handling(p) /\ UpdateMatch(BestMatch(p))
             /\ Candidate(p).status_hint = "closed") =>
          LET action_id == BestMatch(p).action_id
          IN /\ actions' = [actions EXCEPT ![action_id].status = CLOSED]
             /\ Logs(action_id, "close")
             /\ stats' = [stats EXCEPT ![p].closed = @ + 1]]_vars

\* an action has just been closed by a candidate whose metadata differs from
\* the metadata stored for the action
C6_Witness ==
    \E p \in Procs :
        /\ pc[p] = "loop"
        /\ handled[p] > 0
        /\ last.op = "reconcile"
        /\ last.proc = p
        /\ last.result = "close"
        /\ actions[last.id].status = CLOSED
        /\ extracted_actions[p][handled[p]].metadata # actions[last.id].metadata

\* C7: for each candidate, whichever branch is taken, exactly one store write
\* takes effect (one row inserted or one row changed) and exactly one history
\* entry is appended.
C7_OneWriteOneEntry ==
    [][\A p \in Procs : Handling(p) =>
          /\ last'.writes = 1
          /\ Len(history') = Len(history) + 1]_vars

\* C8: during the loop of a call the snapshot is not read again; the action a
\* candidate is matched with is one of the snapshot, never one created by an
\* earlier candidate of the same call; and a candidate whose key no snapshot
\* action has, and that scores below 0.85 against every snapshot action,
\* creates an action with its key even if an earlier candidate of the call
\* created one with that key.
C8_SnapshotReadOnce ==
    [][\A p \in Procs : Handling(p) =>
          LET task_key == _compute_task_key(Candidate(p))
          IN /\ snapshot'[p] = snapshot[p]
             /\ \/ last'.other = NoId
                \/ \E k \in DOMAIN snapshot[p] : snapshot[p][k].id = last'.other
             /\ (\A k \in DOMAIN snapshot[p] :
                    /\ snapshot[p][k].task_key # task_key
                    /\ ~FracGeq(_compute_fuzzy_score(Candidate(p), snapshot[p][k]),
                                Frac(85, 100)))
                  => /\ Len(actions') = Len(actions) + 1
                     /\ actions'[Len(actions')].task_key = task_key]_vars

\* two candidates with equal task keys, handled in one call whose snapshot
\* held no action with that key, have each created an open action
C8_Witness ==
    \E p \in Procs :
        /\ pc[p] = "loop"
        /\ handled[p] = 2
        /\ _compute_task_key(extracted_actions[p][1])
             = _compute_task_key(extracted_actions[p][2])
        /\ \A k \in DOMAIN snapshot[p] :
              snapshot[p][k].task_key # _compute_task_key(extracted_actions[p][1])
        /\ Len(actions) >= 2
        /\ actions[Len(actions)].task_key = _compute_task_key(extracted_actions[p][1])
        /\ actions[Len(actions) - 1].task_key = actions[Len(actions)].task_key
        /\ actions[Len(actions)].status = OPEN
        /\ actions[Len(actions) - 1].status = OPEN
        /\ last.op = "reconcile"
        /\ last.result = "create"

\* the action is open, or has been closed by a later operation
OpenUnlessClosedLater(i) ==
    \/ actions[i].status = OPEN
    \/ \E h \in DOMAIN history :
          history[h].action_id = i /\ history[h].operation = "close"

\* C9: when two concurrent calls for the same client have both read an empty
\* snapshot and have each handled a candidate with the same task key, the
\* store holds two actions of that client with that key, each created open
\* (open still, unless a later operation closed it): neither a lock nor a
\* constraint of the store excludes the duplicate.
C9_ConcurrentDuplicates ==
    \A p, q \in Procs :
        (/\ p # q
         /\ pc[p] = "loop" /\ pc[q] = "loop"
         /\ handled[p] = 1 /\ handled[q] = 1
         /\ client[p] = client[q]
         /\ snapshot[p] = <<>> /\ snapshot[q] = <<>>
         /\ _compute_task_key(extracted_actions[p][1])
              = _compute_task_key(extracted_actions[q][1]))
        => \E i, j \in DOMAIN actions :
              /\ i # j
              /\ actions[i].client_id = client[p] /\ actions[j].client_id = client[p]
              /\ actions[i].task_key = _compute_task_key(extracted_actions[p][1])
              /\ actions[j].task_key = actions[i].task_key
              /\ OpenUnlessClosedLater(i) /\ OpenUnlessClosedLater(j)

\* both callers read before either wrote, and the store now holds two open
\* actions of one client with one task key
C9_Witness ==
    /\ pc[1] = "loop" /\ pc[2] = "loop"
    /\ handled[1] = 1 /\ handled[2] = 1
    /\ snapshot[1] = <<>> /\ snapshot[2] = <<>>
    /\ client[1] = client[2]
    /\ \E i, j \in DOMAIN actions :
          /\ i # j
          /\ actions[i].client_id = client[1] /\ actions[j].client_id = client[1]
          /\ actions[i].task_key = actions[j].task_key
          /\ actions[i].status = OPEN /\ actions[j].status = OPEN

\* C10: a merge, by the console or over HTTP, whose source and target are
\* stored actions of different clients is rejected: no stored action changes
\* and no history entry is appended.
C10_CrossClientMergeRejected ==
    [][(/\ last'.op \in {"admin_merge", "http_merge"}
        /\ last'.id \in DOMAIN actions
        /\ last'.other \in DOMAIN actions
        /\ actions[last'.id].client_id # actions[last'.other].client_id)
       => /\ actions' = actions
          /\ history' = history
          /\ last'.result \in {"cross_client", "400"}]_vars

\* the HTTP merge of two open actions of different clients has just been
\* refused
C10_Witness ==
    /\ last.op = "http_merge"
    /\ last.result = "400"
    /\ last.id \in DOMAIN actions
    /\ last.other \in DOMAIN actions
    /\ actions[last.id].client_id # actions[last.other].client_id
    /\ actions[last.id].status = OPEN
    /\ actions[last.other].status = OPEN

\* the step is a merge, by the console or over HTTP, that reported success
MergeSucceeds ==
    /\ last'.op \in {"admin_merge", "http_merge"}
    /\ last'.result \in {"merged", "200"}

\* C11: a successful merge of a source action into a target action of the
\* same client stores merge(target.metadata, source.metadata) in the target
\* and status closed in the source, leaves the target's status and the
\* source's metadata unchanged, and appends exactly one merge entry for the
\* target and then one close entry for the source, both store writes coming
\* before both history writes.
C11_MergeEffect ==
    [][MergeSucceeds =>
          LET target_id == last'.id
              source_id == last'.other
          IN /\ actions[source_id].client_id = actions[target_id].client_id
             /\ actions'[target_id].metadata
                  \in _merge_metadata(actions[target_id].metadata,
                                      actions[source_id].metadata)
             /\ actions'[source_id].status = CLOSED
             /\ actions'[target_id].status = actions[target_id].status
             /\ actions'[source_id].metadata = actions[source_id].metadata
             /\ Len(history') = Len(history) + 2
             /\ SubSeq(history', 1, Len(history)) = history
             /\ history'[Len(history) + 1].action_id = target_id
             /\ history'[Len(history) + 1].operation = "merge"
             /\ history'[Len(history) + 2].action_id = source_id
             /\ history'[Len(history) + 2].operation = "close"
             /\ last'.order = <<"store", "store", "log", "log">>]_vars

\* C12: closing an action whose stored status is already closed, on the
\* console or over HTTP, is a no-op: no error is reported, no stored action
\* changes and no history entry is appended.
C12_CloseIdempotent ==
    [][(/\ last'.op \in {"admin_close", "http_close"}
        /\ last'.id \in DOMAIN actions
        /\ actions[last'.id].status = CLOSED)
       => /\ actions' = actions
          /\ history' = history
          /\ last'.result \in {"already_closed", "200"}]_vars

\* the step is a close or a merge naming an action id that is not stored
NamesAbsentAction ==
    \/ /\ last'.op \in {"admin_close", "http_close"}
       /\ last'.id \notin DOMAIN actions
    \/ /\ last'.op \in {"admin_merge", "http_merge"}
       /\ (last'.id \notin DOMAIN actions \/ last'.other \notin DOMAIN actions)

\* C13: a close whose action id is not in the store, and a merge whose
\* source id or target id is not in the store, change no stored action,
\* append no history entry, and report the absence to the caller (the
\* console's not-found message, HTTP status 404).
C13_NotFoundNoChange ==
    [][NamesAbsentAction =>
          /\ actions' = actions
          /\ history' = history
          /\ last'.result \in {"not_found", "404"}]_vars

\* the HTTP merge of a stored open action into an absent target has just been
\* answered with 404, the source still open
C13_Witness ==
    /\ last.op = "http_merge"
    /\ last.result = "404"
    /\ last.other \in DOMAIN actions
    /\ last.id \notin DOMAIN actions
    /\ actions[last.other].status = OPEN

\* every "store" of a step's writes comes before every "log"
StoreBeforeLog(order) ==
    \A i, j \in DOMAIN order : (order[i] = "log" /\ order[j] = "store") => j < i

\* C14: in every operation that mutates an action (the reconciler's create,
\* tentative create, update and close; the close and the merge of the console
\* and of the HTTP surface) the store write is attempted before the history
\* write, and when the store write was attempted and changed no row, no
\* history entry is appended.
C14_NoOrphanHistoryEntry ==
    [][/\ StoreBeforeLog(last'.order)
       /\ ((\E i \in DOMAIN last'.order : last'.order[i] = "store")
              /\ last'.writes = 0)
            => history' = history]_vars

\* C15: the audit log is append-only: across every step of a reconcile, a
\* close or a merge, each history entry keeps its position and its fields,
\* and what get_action_history returns for an action (newest first) grows
\* only at its newest end, the older entries following unchanged.
C15_HistoryAppendOnly ==
    [][/\ Len(history') >= Len(history)
       /\ SubSeq(history', 1, Len(history)) = history
       /\ \A action_id \in DOMAIN actions' :
             LET old == get_action_history(history, action_id)
                 new == get_action_history(history', action_id)
             IN /\ Len(new) >= Len(old)
                /\ SubSeq(new, Len(new) - Len(old) + 1, Len(new)) = old]_vars

\* an entry has just been appended for an action that already had one, with
\* an entry of another action between the two
C15_Witness ==
    /\ Len(history) >= 3
    /\ history[Len(history)].action_id = history[Len(history) - 2].action_id
    /\ history[Len(history) - 1].action_id # history[Len(history)].action_id
    /\ Len(get_action_history(history, history[Len(history)].action_id)) >= 2
    /\ last.writes >= 1

\* C16: a call with one candidate for a client none of whose stored actions
\* is open or tentative creates exactly one action, open and with the
\* candidate's task key, appends one create entry for it, and returns the
\* counts created = 1, updated = 0, closed = 0, tentative = 0.
C16_FirstCandidateCreatesOpen ==
    [][\A p \in Procs :
          (/\ Handling(p)
           /\ Len(extracted_actions[p]) = 1
           /\ \A i \in DOMAIN actions :
                 actions[i].client_id = client[p] => actions[i].status = CLOSED)
          => /\ Inserts(OPEN)
             /\ actions'[Len(actions')].task_key = _compute_task_key(Candidate(p))
             /\ actions'[Len(actions')].client_id = client[p]
             /\ Logs(Len(actions'), "create")
             /\ stats'[p] = [created |-> 1, updated |-> 0, closed |-> 0,
                             tentative |-> 0]]_vars

\* a call of one candidate has just created an open action for a client
\* whose only other action is closed and has the candidate's task key
C16_Witness ==
    /\ pc[1] = "loop"
    /\ handled[1] = 1
    /\ Len(extracted_actions[1]) = 1
    /\ snapshot[1] = <<>>
    /\ last.op = "reconcile"
    /\ last.result = "create"
    /\ stats[1] = [created |-> 1, updated |-> 0, closed |-> 0, tentative |-> 0]
    /\ Len(actions) = 2
    /\ actions[1].status = CLOSED
    /\ actions[2].status = OPEN
    /\ actions[1].client_id = actions[2].client_id
    /\ actions[1].task_key = actions[2].task_key
    /\ actions[2].task_key = _compute_task_key(extracted_actions[1][1])

\* the snapshot of caller p is exactly the open action Scenario A's candidate
\* ("Please send your PAN card document", from rm) created
SnapshotIsScenarioA(p) ==
    /\ Len(snapshot[p]) = 1
    /\ snapshot[p][1].status = OPEN
    /\ snapshot[p][1].task_type = "pan_card"
    /\ snapshot[p][1].owner = "client"
    /\ snapshot[p][1].metadata = EmptyDict
    /\ snapshot[p][1].task_text = CandRequestPdf.task_text
    /\ snapshot[p][1].task_key = _compute_task_key(CandRequestPdf)

\* C17: Scenario B's candidate (pan_card, owner rm, pan_number, hint closed),
\* reconciled in a call of its own for the client whose one open action is
\* Scenario A's (pan_card, owner client, empty metadata), is not an exact
\* match and scores
\* 0.4 + 0 + 0.2 * text_similarity + 0 = 93/170, below 0.6; the branch taken
\* creates a new open action, leaving two open actions and Scenario A's
\* action open.
C17_ScenarioBCreatesOpen ==
    [][\A p \in Procs :
          (/\ Handling(p)
           /\ extracted_actions[p] = <<CandPanNumberIs>>
           /\ SnapshotIsScenarioA(p))
          => LET m == BestMatch(p)
                 r == text_similarity(CandPanNumberIs.task_text,
                                      CandRequestPdf.task_text)
                 first_id == snapshot[p][1].id
             IN /\ m.match_type = "fuzzy"
                /\ m.action_id = first_id
                /\ m.confidence.num * 10 * r.den
                     = m.confidence.den * (4 * r.den + 2 * r.num)
                /\ m.confidence.num * 170 = 93 * m.confidence.den
                /\ ~FracGeq(m.confidence, Frac(6, 10))
                /\ Inserts(OPEN)
                /\ actions'[Len(actions')].task_key
                     = _compute_task_key(CandPanNumberIs)
                /\ actions'[first_id].status = OPEN
                /\ Cardinality({i \in DOMAIN actions' :
                                  /\ actions'[i].client_id = client[p]
                                  /\ actions'[i].status = OPEN}) = 2]_vars

\* Scenario B's candidate has just created a second open action on a fuzzy
\* score of 93/170 against Scenario A's action, which is still open
C17_Witness ==
    /\ last.op = "reconcile"
    /\ last.result = "create"
    /\ last.match = "fuzzy"
    /\ last.confidence.num * 170 = 93 * last.confidence.den
    /\ last.other \in DOMAIN actions
    /\ last.id \in DOMAIN actions
    /\ actions[last.other].task_key = _compute_task_key(CandRequestPdf)
    /\ actions[last.other].status = OPEN
    /\ actions[last.id].task_key = _compute_task_key(CandPanNumberIs)
    /\ actions[last.id].status = OPEN
    /\ actions[last.id].client_id = actions[last.other].client_id

\* the fraction lies in [0, 1]
InUnit(x) == x.den > 0 /\ x.num >= 0 /\ x.num <= x.den

\* score = 0.4 [type_equal] + 0.3 e + 0.2 r + 0.1 [owner_equal]
IsWeightedSum(score, type_equal, e, r, owner_equal) ==
    score.num * 10 * e.den * r.den
      = score.den * ((IF type_equal THEN 4 ELSE 0) * e.den * r.den
                     + 3 * e.num * r.den
                     + 2 * r.num * e.den
                     + (IF owner_equal THEN 1 ELSE 0) * e.den * r.den)

\* C18: for every candidate and stored action the fuzzy score computed is
\* 0.4 [task_type equal] + 0.3 entity_match_score + 0.2 text_similarity
\* + 0.1 [owner equal], the two scores lying in [0, 1]; and for every
\* entity_match_score and text_similarity in [0, 1] that sum lies in [0, 1].
C18_FuzzyScoreFormula ==
    /\ last.op = "fuzzy_score" =>
          LET c == last.extracted_action
              a == last.existing_action
              e == _compute_entity_match_score(c.metadata, a.metadata)
              r == text_similarity(c.task_text, a.task_text)
          IN /\ InUnit(e)
             /\ InUnit(r)
             /\ IsWeightedSum(last.score, c.task_type = a.task_type, e, r,
                              c.owner = a.owner)
             /\ InUnit(last.score)
    /\ last.op = "score" =>
          /\ IsWeightedSum(last.score, last.type_equal, last.entity_score,
                           last.text_similarity, last.owner_equal)
          /\ InUnit(last.score)

\* the score has been computed for equal types, equal owners, an entity score
\* of 1 and a text similarity of 1, and is 1
C18_Witness ==
    /\ last.op = "score"
    /\ last.type_equal
    /\ last.owner_equal
    /\ last.entity_score.num = last.entity_score.den
    /\ last.text_similarity.num = last.text_similarity.den
    /\ last.score.num = last.score.den

\* the PAN number of a candidate's metadata, NoPan when it has none
PanOf(extracted_action) ==
    IF "pan_number" \in DOMAIN extracted_action.metadata
    THEN extracted_action.metadata["pan_number"].val
    ELSE NoPan

\* the candidates equal to the given one on task_type, PAN number,
\* deliverable_type and owner
SameKeyInputs(extracted_action) ==
    CandidatesWith(extracted_action.task_type, PanOf(extracted_action),
                   extracted_action.deliverable_type,
                   IF extracted_action.owner = "client" THEN "rm" ELSE "client")

\* task_type, then pan_<value> if a PAN is present, then the deliverable type
\* if present, then the owner, joined by underscores
ExpectedKey(task_type, pan, deliverable_type, owner) ==
    task_type
    \o (IF pan # NoPan THEN "_pan_" \o pan ELSE "")
    \o (IF deliverable_type # NoDeliverable THEN "_" \o deliverable_type ELSE "")
    \o "_" \o owner

\* C19: the task key is a function of task_type, the PAN number of the
\* metadata, deliverable_type and owner only: every candidate equal on these
\* four to the one whose key was computed, whatever its task_text, urls,
\* status_hint and confidence, gets the same key, and the key is task_type,
\* pan_<value> if a PAN is present, the deliverable type if present, and the
\* owner, joined by underscores.
C19_TaskKeyOfFourInputs ==
    last.op = "task_key" =>
        LET c == last.extracted_action
        IN /\ \A other \in SameKeyInputs(c) : _compute_task_key(other) = last.task_key
           /\ last.task_key
                = ExpectedKey(c.task_type, PanOf(c), c.deliverable_type, c.owner)

\* the key pan_card_pan_ABCDE1234F_number_rm has been computed for a candidate
\* with urls, a closed hint and a suffixed task text, and candidates differing
\* from it in those fields exist
C19_Witness ==
    /\ last.op = "task_key"
    /\ last.task_key = "pan_card_pan_ABCDE1234F_number_rm"
    /\ "urls" \in DOMAIN last.extracted_action.metadata
    /\ last.extracted_action.status_hint = "closed"
    /\ last.extracted_action.task_text = "Provide PAN card document (number required)"
    /\ \E other \in SameKeyInputs(last.extracted_action) :
          /\ other.task_text # last.extracted_action.task_text
          /\ other.status_hint # last.extracted_action.status_hint
          /\ other.metadata # last.extracted_action.metadata
          /\ other.confidence # last.extracted_action.confidence

\* the key of one candidate for every combination of task type, PAN number
\* (or none), deliverable type (or none) and owner
KeyTable ==
    {[task_type |-> k[1], pan |-> k[2], deliverable_type |-> k[3],
      owner |-> OwnerOf(k[4]),
      task_key |-> _compute_task_key(
                      ExtractedAction(k[1], k[4], NoHint, MetadataOf(k[2], <<>>),
                                      k[3], "none"))] :
        k \in KeyInputs}

\* C20: over all task types, deliverable types (or none), PAN numbers (or
\* none) and owners client and rm, a candidate that differs from the one
\* whose key was computed in task_type, PAN number, deliverable_type or owner
\* has a different task key, so that neither can exact-match (task_key
\* equality) an action created from the other.
C20_TaskKeysSeparate ==
    last.op = "task_key" =>
        LET c == last.extracted_action
        IN \A t \in KeyTable :
              (\/ t.task_type # c.task_type
               \/ t.pan # PanOf(c)
               \/ t.deliverable_type # c.deliverable_type
               \/ t.owner # c.owner)
              => t.task_key # last.task_key

\* the key photo_photo_client has been computed (task type photo, deliverable
\* photo), and the candidates of type photo without a deliverable, and with
\* the same inputs but owner rm, have other keys
C20_Witness ==
    /\ last.op = "task_key"
    /\ last.task_key = "photo_photo_client"
    /\ last.extracted_action.task_type = "photo"
    /\ last.extracted_action.deliverable_type = "photo"
    /\ \E t \in KeyTable :
          /\ t.task_type = "photo" /\ t.pan = NoPan /\ t.owner = "client"
          /\ t.deliverable_type = NoDeliverable
          /\ t.task_key = "photo_client"
    /\ \E t \in KeyTable :
          /\ t.task_type = "photo" /\ t.pan = NoPan /\ t.owner = "rm"
          /\ t.deliverable_type = "photo"
          /\ t.task_key = "photo_photo_rm"

-----------------------------------------------------------------------------
(* Properties of _merge_metadata (SpecMetadata).                           *)

\* r has m's keys and scalar values and, in each list-valued field, the
\* distinct elements of m's list, each once
SameUpToDuplicates(m, r) ==
    /\ DOMAIN r = DOMAIN m
    /\ \A k \in DOMAIN m :
          IF m[k].kind = "list"
          THEN /\ r[k].kind = "list"
               /\ Range(r[k].val) = Range(m[k].val)
               /\ Len(r[k].val) = Cardinality(Range(m[k].val))
          ELSE r[k] = m[k]

\* C21: merging is idempotent on list-valued fields: for every metadata map
\* m, merge(m, m) and merge(merge(m, m), m) contain, in each list-valued
\* field, exactly the distinct elements of m's list with no duplicates, and
\* have the same key set and scalar values as m.
C21_MergeIdempotent ==
    (last.op = "merged" /\ last.existing_metadata = last.new_metadata)
        => /\ SameUpToDuplicates(last.new_metadata, last.merged)
           /\ \A again \in _merge_metadata(last.merged, last.new_metadata) :
                 SameUpToDuplicates(last.new_metadata, again)

\* a dict whose url list holds one url twice, merged with itself: the url is
\* kept once, next to the unchanged PAN number
C21_Witness ==
    /\ last.op = "merged"
    /\ last.existing_metadata = last.new_metadata
    /\ DOMAIN last.new_metadata = {"pan_number", "urls"}
    /\ last.new_metadata["urls"] = List(<<URL1, URL1>>)
    /\ last.merged["urls"] = List(<<URL1>>)
    /\ last.merged["pan_number"] = last.new_metadata["pan_number"]

\* the value the rules of the merge give key k, as a test on the value v found
\* in the merged dict
RuledValue(existing, incoming, k, v) ==
    IF k \notin DOMAIN incoming THEN v = existing[k]
    ELSE IF k \notin DOMAIN existing THEN v = incoming[k]
    ELSE IF existing[k].kind = "list" /\ incoming[k].kind = "list"
    THEN /\ v.kind = "list"
         /\ Range(v.val) = Range(existing[k].val) \cup Range(incoming[k].val)
         /\ Len(v.val) = Cardinality(Range(v.val))
    ELSE IF k \in {"pan_number", "deliverable_type"} THEN v = incoming[k]
    ELSE IF existing[k].kind = "dict" /\ incoming[k].kind = "dict"
    THEN /\ v.kind = "dict"
         /\ DOMAIN v.val = DOMAIN existing[k].val \cup DOMAIN incoming[k].val
         /\ \A f \in DOMAIN v.val :
               v.val[f] = IF f \in DOMAIN incoming[k].val
                          THEN incoming[k].val[f] ELSE existing[k].val[f]
    ELSE IF PyStrLen(incoming[k]) > PyStrLen(existing[k]) THEN v = incoming[k]
    ELSE v = existing[k]

\* C22: merge(existing, incoming) keeps every key present only in existing
\* unchanged and, for each incoming key, applies the first matching rule in
\* this order: absent in existing -> the incoming value is added; both values
\* lists -> set union; key pan_number or deliverable_type -> the incoming
\* value wins; both values maps -> shallow merge with the incoming keys
\* overwriting; otherwise the value with the strictly longer string
\* representation is kept, the existing one on equal length.
C22_MergeRules ==
    last.op = "merged"
        => /\ DOMAIN last.merged
                = DOMAIN last.existing_metadata \cup DOMAIN last.new_metadata
           /\ \A k \in DOMAIN last.merged :
                 RuledValue(last.existing_metadata, last.new_metadata, k,
                            last.merged[k])

\* priority 'high' meets the equally long 'soon' and is kept, next to a
\* deliverable_type that only the existing dict has
C22_Witness ==
    /\ last.op = "merged"
    /\ DOMAIN last.existing_metadata = {"priority", "deliverable_type"}
    /\ DOMAIN last.new_metadata = {"priority"}
    /\ last.existing_metadata["priority"] = Str("high")
    /\ last.new_metadata["priority"] = Str("soon")
    /\ last.merged = last.existing_metadata

-----------------------------------------------------------------------------
(* Properties of _compute_entity_match_score (SpecMetadata).               *)

\* the dimensions of the comparison that apply to the two dicts, and those
\* of them that match
ApplicableDimensions(a, b) ==
    (IF "pan_number" \in DOMAIN a /\ "pan_number" \in DOMAIN b
     THEN {"pan"} ELSE {})
    \cup (IF "urls" \in DOMAIN a \/ "urls" \in DOMAIN b THEN {"url"} ELSE {})
    \cup (IF "deliverable_type" \in DOMAIN a \/ "deliverable_type" \in DOMAIN b
          THEN {"deliverable"} ELSE {})

UrlsOf(m) == IF "urls" \in DOMAIN m THEN Range(m["urls"].val) ELSE {}

MatchingDimensions(a, b) ==
    {d \in ApplicableDimensions(a, b) :
        CASE d = "pan" -> a["pan_number"] = b["pan_number"]
          [] d = "url" -> UrlsOf(a) \cap UrlsOf(b) # {}
          [] d = "deliverable" ->
                /\ "deliverable_type" \in DOMAIN a
                /\ "deliverable_type" \in DOMAIN b
                /\ a["deliverable_type"] = b["deliverable_type"]}

\* C30: the entity match score is 1.0 when neither side has any metadata,
\* 0.0 when exactly one side has metadata, and otherwise the number of
\* matching dimensions divided by the number of applicable ones, the PAN
\* dimension applying only if both sides have a pan_number, the URL
\* dimension if either side has urls (matching on a non-empty intersection)
\* and the deliverable dimension if either side has a deliverable_type; it
\* is 0.0 when both sides have metadata but no dimension applies, and always
\* lies in [0, 1].
C30_EntityMatchScore ==
    last.op = "entity_score" =>
        LET a == last.new_metadata
            b == last.existing_metadata
            applicable == Cardinality(ApplicableDimensions(a, b))
            matching == Cardinality(MatchingDimensions(a, b))
            score == last.score
        IN /\ score.den > 0 /\ 0 <= score.num /\ score.num <= score.den
           /\ IF DOMAIN a = {} /\ DOMAIN b = {} THEN score.num = score.den
              ELSE IF DOMAIN a = {} \/ DOMAIN b = {} THEN score.num = 0
              ELSE IF applicable = 0 THEN score.num = 0
              ELSE score.num * applicable = matching * score.den

\* three dimensions apply, the pan_number both sides have and the urls and
\* the deliverable_type one side has, and the PAN numbers alone match: 1/3
C30_Witness ==
    /\ last.op = "entity_score"
    /\ DOMAIN last.new_metadata = {"pan_number", "urls"}
    /\ DOMAIN last.existing_metadata = {"pan_number", "deliverable_type"}
    /\ last.new_metadata["pan_number"] = last.existing_metadata["pan_number"]
    /\ last.score.num * 3 = last.score.den

-----------------------------------------------------------------------------
(* Properties of extract_actions (SpecExtract).                            *)

Extracted == last.op = "extracted"

\* the fixed order of the categories
CategoryOrder ==
    <<"pan_card", "aadhaar", "bank_statement", "income_proof", "address_proof",
      "photo", "signature">>

\* the patterns of a category
PatternsOf(task_type) ==
    UNION {task_patterns[i].patterns :
             i \in {j \in DOMAIN task_patterns : task_patterns[j].task_type = task_type}}

\* the positions in CategoryOrder of the categories the text matches
MatchingCategories(text) ==
    {i \in DOMAIN CategoryOrder : Found(PatternsOf(CategoryOrder[i]), text)}

\* C23: extract_actions returns at most one candidate per message: when the
\* text matches the patterns of several categories, exactly one candidate is
\* returned, and its task_type is the first matching category in the order
\* pan_card, aadhaar, bank_statement, income_proof, address_proof, photo,
\* signature.
C23_OneCandidateFirstCategory ==
    Extracted =>
        /\ Len(last.actions) <= 1
        /\ MatchingCategories(last.text) # {} =>
              /\ Len(last.actions) = 1
              /\ last.actions[1].task_type
                    = CategoryOrder[SetMin(MatchingCategories(last.text))]

\* 'PAN card photo' matches pan_card and photo, and the one candidate is a
\* pan_card
C23_Witness ==
    /\ Extracted
    /\ Cardinality(MatchingCategories(last.text)) >= 2
    /\ {1, 6} \subseteq MatchingCategories(last.text)
    /\ Len(last.actions) = 1
    /\ last.actions[1].task_type = "pan_card"

\* a keyword of the list occurs in the lower-cased text
HasVerb(kind, text) == Found(action_verbs(kind), text)

\* a PAN-shaped token (five letters, four digits, a letter) together with
\* 'is' or 'are' in the text
PanWithIsAre(text) ==
    /\ \E i \in DOMAIN text : Row(text[i]).pan # NoPan
    /\ \E i \in DOMAIN text : {"is", "are"} \cap Row(text[i]).contains # {}

\* C24: the status hint of a candidate follows a strict priority: closed
\* whenever a completion verb is present (even if a modification verb is
\* also present) or a PAN-shaped token co-occurs with is/are; otherwise
\* modify when a modification verb is present; otherwise none.
C24_StatusHintPriority ==
    Extracted =>
        \A i \in DOMAIN last.actions :
            last.actions[i].status_hint =
                IF HasVerb("completion", last.text) \/ PanWithIsAre(last.text)
                THEN "closed"
                ELSE IF HasVerb("modification", last.text) THEN "modify"
                ELSE NoHint

\* 'received' and 'update' in one text: the hint is closed
C24_Witness ==
    /\ Extracted
    /\ HasVerb("completion", last.text)
    /\ HasVerb("modification", last.text)
    /\ Len(last.actions) = 1
    /\ last.actions[1].status_hint = "closed"

\* C25: the owner of every extracted candidate is the party other than the
\* sender: sender rm yields owner client, sender client yields owner rm, and
\* the owner is one of client and rm whatever the sender string is.
C25_OwnerIsOtherParty ==
    Extracted =>
        \A i \in DOMAIN last.actions :
            /\ last.sender = "rm" => last.actions[i].owner = "client"
            /\ last.sender = "client" => last.actions[i].owner = "rm"
            /\ last.actions[i].owner \in {"client", "rm"}

\* a candidate of a sender that is neither rm nor client: its owner is rm
C25_Witness ==
    /\ Extracted
    /\ last.sender \notin {"rm", "client"}
    /\ Len(last.actions) = 1
    /\ last.actions[1].owner = "rm"

\* C26: extract_actions yields a candidate exactly when a category pattern
\* matches, or when no category matches and the text has a request or
\* completion verb together with a generic document keyword or a URL (the
\* candidate then has task_type other); in every other case, a text with
\* only a modification verb included, it yields no candidate.
C26_CandidateExactlyWhen ==
    Extracted =>
        LET category == MatchingCategories(last.text) # {}
            fallback ==
                /\ ~category
                /\ HasVerb("request", last.text) \/ HasVerb("completion", last.text)
                /\ \/ Found(general_doc_patterns, last.text)
                   \/ UrlsOfText(last.text) # <<>>
        IN /\ last.actions # <<>> <=> (category \/ fallback)
           /\ (last.actions # <<>> /\ ~category) => last.actions[1].task_type = "other"

\* C26, amended: extract_actions yields a candidate exactly when a category
\* pattern matches, or when no category matches and the text has a request
\* verb, a completion verb or a PAN-shaped token with is/are, together with
\* a generic document keyword or a URL (the candidate then has task_type
\* other); in every other case it yields no candidate.
C26_CandidateWhenRequestOrCompletion ==
    Extracted =>
        LET category == MatchingCategories(last.text) # {}
            fallback ==
                /\ ~category
                /\ \/ HasVerb("request", last.text)
                   \/ HasVerb("completion", last.text)
                   \/ PanWithIsAre(last.text)
                /\ \/ Found(general_doc_patterns, last.text)
                   \/ UrlsOfText(last.text) # <<>>
        IN /\ last.actions # <<>> <=> (category \/ fallback)
           /\ (last.actions # <<>> /\ ~category) => last.actions[1].task_type = "other"

\* a PAN number, 'is' and a generic document keyword, without a category
\* and without a request or completion verb: one candidate, of type other
C26_Witness ==
    /\ Extracted
    /\ MatchingCategories(last.text) = {}
    /\ ~HasVerb("request", last.text)
    /\ ~HasVerb("completion", last.text)
    /\ PanWithIsAre(last.text)
    /\ Found(general_doc_patterns, last.text)
    /\ Len(last.actions) = 1
    /\ last.actions[1].task_type = "other"

\* the keywords of a deliverable
KeywordsOf(deliverable) ==
    UNION {deliverable_patterns[i].patterns :
             i \in {j \in DOMAIN deliverable_patterns :
                      deliverable_patterns[j].deliverable = deliverable}}

DeliverableOrder == <<"photo", "pdf", "number", "url", "attachment">>

\* the positions in DeliverableOrder of the deliverables with a keyword in
\* the text
KeywordDeliverables(text) ==
    {i \in DOMAIN DeliverableOrder : Found(KeywordsOf(DeliverableOrder[i]), text)}

\* C27: the deliverable_type of a candidate is url whenever the text
\* contains a URL, whatever deliverable keywords it also contains; otherwise
\* it is the first entry of the order photo, pdf, number, url, attachment
\* whose keyword occurs in the text, and it is absent when none occurs.
C27_DeliverableType ==
    Extracted =>
        \A i \in DOMAIN last.actions :
            last.actions[i].deliverable_type =
                IF \E j \in DOMAIN last.text : Row(last.text[j]).urls # <<>>
                THEN "url"
                ELSE IF KeywordDeliverables(last.text) # {}
                THEN DeliverableOrder[SetMin(KeywordDeliverables(last.text))]
                ELSE NoDeliverable

\* a url next to the keyword 'photo': the deliverable_type is url
C27_Witness ==
    /\ Extracted
    /\ UrlsOfText(last.text) # <<>>
    /\ 1 \in KeywordDeliverables(last.text)
    /\ Len(last.actions) = 1
    /\ last.actions[1].deliverable_type = "url"

-----------------------------------------------------------------------------
(* Properties of get_operation_summary (SpecHistory).                      *)

\* the history entries of an action in the order they were written
RECURSIVE EntriesOf(_, _)
EntriesOf(entries, action_id) ==
    IF entries = <<>> THEN <<>>
    ELSE (IF Head(entries).action_id = action_id THEN <<Head(entries)>> ELSE <<>>)
         \o EntriesOf(Tail(entries), action_id)

RECURSIVE SumCounts(_, _)
SumCounts(counts, keys) ==
    IF keys = {} THEN 0
    ELSE LET k == CHOOSE x \in keys : TRUE
         IN counts[k] + SumCounts(counts, keys \ {k})

\* C28: the operation summary of an action is computed from its current
\* history: total_operations equals the number of its history entries and
\* the sum of the per-operation counts, first_operation is the action's
\* first (oldest) history entry and last_operation is its last (most
\* recent) history entry.
C28_OperationSummary ==
    (last.op = "http_history" /\ last.result = "200") =>
        LET written == EntriesOf(history, last.id)
            summary == last.summary
        IN /\ summary.total_operations = Len(written)
           /\ summary.total_operations
                = SumCounts(summary.operation_counts, DOMAIN summary.operation_counts)
           /\ written # <<>> =>
                 /\ summary.first_operation = written[1]
                 /\ summary.last_operation = written[Len(written)]

-----------------------------------------------------------------------------
(* Properties of _find_best_match (SpecMatch).                             *)

\* the positions of the existing actions with the highest fuzzy score
BestPositions(extracted_action, rows) ==
    {i \in DOMAIN rows :
        \A j \in DOMAIN rows :
            FracGeq(_compute_fuzzy_score(extracted_action, rows[i]),
                    _compute_fuzzy_score(extracted_action, rows[j]))}

NoKeyMatch ==
    /\ last.op = "best_match"
    /\ \A i \in DOMAIN last.existing_actions :
          last.existing_actions[i].task_key # _compute_task_key(last.extracted_action)

\* C29: when no snapshot action has the candidate's task key,
\* _find_best_match returns the snapshot action with the maximum fuzzy
\* score; when several actions share that maximum it returns the one that
\* comes first in snapshot order; and when the snapshot is empty or every
\* score is 0 it returns no match (match_type none, no action id).
C29_BestFuzzyMatch ==
    NoKeyMatch =>
        LET c == last.extracted_action
            q == last.existing_actions
            first == SetMin(BestPositions(c, q))
        IN IF q = <<>> \/ \A i \in DOMAIN q : _compute_fuzzy_score(c, q[i]).num = 0
           THEN /\ last.match_result.match_type = "none"
                /\ last.match_result.action_id = NoId
           ELSE /\ last.match_result.match_type = "fuzzy"
                /\ last.match_result.action_id = q[first].id
                /\ last.match_result.confidence = _compute_fuzzy_score(c, q[first])

\* two existing actions share the highest score, which is not 0, and the
\* first of them is returned
C29_Witness ==
    /\ NoKeyMatch
    /\ Len(last.existing_actions) = 2
    /\ BestPositions(last.extracted_action, last.existing_actions) = {1, 2}
    /\ last.match_result.match_type = "fuzzy"
    /\ last.match_result.action_id = last.existing_actions[1].id

-----------------------------------------------------------------------------
(* Candidates without metadata against actions without metadata.           *)

\* equal task_type, equal owner, empty metadata on both sides, and a task
\* key other than the candidate's
PlainPair(extracted_action, existing_action) ==
    /\ extracted_action.task_type = existing_action.task_type
    /\ extracted_action.owner = existing_action.owner
    /\ ~Truthy(extracted_action.metadata)
    /\ ~Truthy(existing_action.metadata)
    /\ existing_action.task_key # _compute_task_key(extracted_action)

PlainPairsOf(p) ==
    {i \in DOMAIN snapshot[p] : PlainPair(Candidate(p), snapshot[p][i])}

\* C31: when the list a reconcile pass matches against holds an action with
\* the candidate's task_type and owner, metadata empty on both sides and a
\* different task key, the fuzzy score of the candidate and that action is at
\* least 0.8, and the pass does not take the create-new-open branch: it
\* updates (or closes) an existing action or creates a tentative one.
C31_PlainPairNeverCreates ==
    [][\A p \in Procs :
          Handling(p) /\ PlainPairsOf(p) # {} =>
             /\ \A i \in PlainPairsOf(p) :
                   FracGeq(_compute_fuzzy_score(Candidate(p), snapshot[p][i]),
                           Frac(8, 10))
             /\ last'.result \in {"update", "close", "tentative"}
             /\ last'.result = "tentative" => actions'[last'.id].status = TENTATIVE
             /\ last'.result # "tentative" => Len(actions') = Len(actions)]_vars

\* a pass has updated the action of such a pair on a fuzzy match below 1.0
C31_Witness ==
    /\ last.op = "reconcile"
    /\ last.result = "update"
    /\ last.match = "fuzzy"
    /\ ~FracGeq(last.confidence, Frac(1, 1))
    /\ \E a \in Range(snapshot[last.proc]) :
          /\ a.id = last.other
          /\ PlainPair(extracted_actions[last.proc][handled[last.proc]], a)

-----------------------------------------------------------------------------
(* The task keys of a client's open and tentative actions.                 *)

Live(i) == actions[i].status \in {OPEN, TENTATIVE}

SameClientAndKey(i, j) ==
    /\ i # j
    /\ actions[i].client_id = actions[j].client_id
    /\ actions[i].task_key = actions[j].task_key

\* C32: when every call carries one candidate and the calls do not
\* interleave (admin and HTTP close and merge between them), no two actions
\* of one client whose status is open or tentative have the same task_key.
C32_LiveKeysDistinct ==
    \A i, j \in DOMAIN actions :
        SameClientAndKey(i, j) => ~(Live(i) /\ Live(j))

\* a task key in use twice for one client, first by an action since closed and
\* then by the action a later call created
C32_Witness ==
    /\ last.op = "reconcile"
    /\ last.result \in {"create", "tentative"}
    /\ \E i \in DOMAIN actions :
          /\ SameClientAndKey(i, last.id)
          /\ actions[i].status = CLOSED
          /\ Live(last.id)

-----------------------------------------------------------------------------
(* The counters of a call.                                                 *)

Total(s) == s.created + s.updated + s.closed + s.tentative

Added(s) == s.created + s.tentative

\* C33: the counters of a process_extracted_actions call add up to the number
\* of candidates the loop has handled (at the return: the number passed in),
\* and created + tentative counts the actions the call has added to the
\* store: it is 0 when the loop starts and grows by the number of rows each
\* step of the call adds.
C33_CountersMatch ==
    [][\A p \in Procs :
          /\ pc'[p] = "loop" => Total(stats'[p]) = handled'[p]
          /\ pc[p] = "idle" /\ pc'[p] = "loop" =>
                Added(stats'[p]) = 0 /\ Len(actions') = Len(actions)
          /\ pc[p] = "loop" /\ pc'[p] = "loop" /\ last'.proc = p =>
                Added(stats'[p]) - Added(stats[p]) = Len(actions') - Len(actions)
          /\ pc[p] = "loop" /\ pc'[p] = "idle" =>
                Total(stats[p]) = Len(extracted_actions[p])]_vars

\* a call of two candidates about to return: one action added, one closed
C33_Witness ==
    /\ pc[1] = "loop"
    /\ Len(extracted_actions[1]) = 2
    /\ handled[1] = 2
    /\ Added(stats[1]) = 1
    /\ stats[1].closed = 1
    /\ last.op = "reconcile"

-----------------------------------------------------------------------------
(* The status of the action a reconcile pass writes to.                    *)

\* C34: every pass of the reconciler that takes the update branch (an update
\* or a close, with its history entry) targets an action whose stored status
\* is open or tentative when the pass writes.
C34_ReconcilerSparesClosed ==
    [][\A p \in Procs :
          Handling(p) /\ last'.result \in {"update", "close"} =>
             /\ last'.id \in DOMAIN actions
             /\ actions[last'.id].status \in {OPEN, TENTATIVE}]_vars

-----------------------------------------------------------------------------
(* The shape of an action's history.                                       *)

\* the positions in the history table of the entries of an action, and of
\* those with the given operation
PositionsOf(action_id) ==
    {k \in DOMAIN history : history[k].action_id = action_id}

PositionsWith(action_id, operation) ==
    {k \in PositionsOf(action_id) : history[k].operation = operation}

-----------------------------------------------------------------------------
(* Closed status and close entries.                                        *)

\* C36: between operations an action's stored status is closed exactly when
\* its history has an entry with operation close.
C36_ClosedIffCloseEntry ==
    \A i \in DOMAIN actions :
        actions[i].status = CLOSED <=> PositionsWith(i, "close") # {}

\* a merge has closed its source, which has a close entry, and left its
\* target, which has none, open or tentative
C36_Witness ==
    /\ last.op \in {"admin_merge", "http_merge"}
    /\ last.result \in {"merged", "200"}
    /\ last.id # last.other
    /\ actions[last.other].status = CLOSED
    /\ PositionsWith(last.other, "close") # {}
    /\ actions[last.id].status # CLOSED
    /\ PositionsWith(last.id, "close") = {}

-----------------------------------------------------------------------------
(* The client of the actions a call touches.                               *)

\* the history entries of the actions of clients other than client_id, in
\* the order of the table
RECURSIVE ForeignEntries(_, _, _, _)
ForeignEntries(rows, entries, client_id, k) ==
    IF k = 0 THEN <<>>
    ELSE ForeignEntries(rows, entries, client_id, k - 1)
         \o (IF entries[k].action_id \in DOMAIN rows
                /\ rows[entries[k].action_id].client_id # client_id
             THEN <<entries[k]>>
             ELSE <<>>)

\* C37: a pass of a process_extracted_actions call for client c changes no
\* stored action of another client and no history of such an action; the
\* action it creates, updates or closes has client_id c.
C37_OtherClientsUntouched ==
    [][\A p \in Procs :
          Handling(p) =>
             /\ \A i \in DOMAIN actions :
                   actions[i].client_id # client[p] => actions'[i] = actions[i]
             /\ ForeignEntries(actions', history', client[p], Len(history'))
                  = ForeignEntries(actions, history, client[p], Len(history))
             /\ last'.id \in DOMAIN actions'
             /\ actions'[last'.id].client_id = client[p]
             /\ \A i \in DOMAIN actions' \ DOMAIN actions :
                   actions'[i].client_id = client[p]
             /\ \A k \in DOMAIN history' \ DOMAIN history :
                   actions'[history'[k].action_id].client_id = client[p]]_vars

\* a call for one client has created or updated an action while the store
\* holds an action of the other client, which has a history
C37_Witness ==
    /\ last.op = "reconcile"
    /\ pc[last.proc] = "loop"
    /\ \E i \in DOMAIN actions :
          /\ actions[i].client_id # client[last.proc]
          /\ PositionsOf(i) # {}
    /\ actions[last.id].client_id = client[last.proc]

-----------------------------------------------------------------------------
(* process_chat: the order of the messages, the list each is matched       *)
(* against, and the totals.                                                *)

InChat == pc[2] = "chat"

\* C38: while a request is served, a call of process_extracted_actions is
\* entered only for the message next in request order, with that message's
\* candidates and the request's client; the messages are passed one by one,
\* a call being finished before its message is passed; every candidate is
\* matched as _find_best_match matches it against the client's open and
\* tentative actions as stored at that moment, whatever earlier messages of
\* the request created or closed; total_stats grows by the counters of each
\* finished call and by nothing else, and the response carries total_stats.
C38_MessagesInOrderFreshSnapshot ==
    [][InChat =>
          /\ pc[1] = "idle" /\ pc'[1] = "loop" =>
                LET chat_message == extracted_actions[2][handled[2] + 1]
                IN /\ handled[2] < Len(extracted_actions[2])
                   /\ chat_message.saved
                   /\ extracted_actions'[1] = chat_message.extracted_actions
                   /\ client'[1] = client[2]
          /\ Handling(1) =>
                LET match_result ==
                       _find_best_match(Candidate(1),
                                        get_open_actions(actions, client[2]),
                                        _compute_task_key(Candidate(1)))
                IN /\ last'.match = match_result.match_type
                   /\ last'.other = match_result.action_id
                   /\ last'.confidence = match_result.confidence
          /\ pc'[2] = "chat" /\ handled'[2] # handled[2] =>
                /\ handled'[2] = handled[2] + 1
                /\ pc'[1] = "idle"
                /\ pc[1] = "loop" => handled[1] = Len(extracted_actions[1])
                /\ stats'[2] = AddStats(stats[2],
                                        IF pc[1] = "loop" THEN stats[1] ELSE ZeroStats)
          /\ pc'[2] = "chat" /\ handled'[2] = handled[2] => stats'[2] = stats[2]
          /\ pc'[2] = "idle" =>
                /\ handled[2] = Len(extracted_actions[2])
                /\ pc[1] = "idle"
                /\ last'.created_actions = stats[2].created
                /\ last'.updated_actions = stats[2].updated
                /\ last'.closed_actions = stats[2].closed
                /\ last'.tentative_actions = stats[2].tentative]_vars

\* a request of two messages on an empty store whose second message closed
\* the action its first message created
C38_Witness ==
    /\ InChat
    /\ handled[2] = 2
    /\ Len(actions) = 1
    /\ actions[1].status = CLOSED
    /\ stats[2] = [created |-> 1, updated |-> 0, closed |-> 1, tentative |-> 0]

====
